---- MODULE Spec2Model ----
(***************************************************************************)
(* The HTML content conversion state machine of NetSurf                    *)
(* (content/handlers/html/html.c): the content lifecycle                   *)
(* LOADING -> READY -> DONE / ERROR, the active-fetch counter, the         *)
(* stylesheet "modified" flags, and the calls html_convert,                *)
(* html_begin_conversion, html_finish_conversion, html_box_convert_done,   *)
(* html_proceed_to_done and html_stop; and the parser adapter              *)
(* (html_create_html_data, html_process_data,                              *)
(* html_process_encoding_change), which is followed byte by byte in a      *)
(* specification of its own.                                               *)
(*                                                                         *)
(* The whole html_content, together with the collaborators' state that the *)
(* handlers depend on (fetches in flight, the outstanding box              *)
(* construction) and the observations the properties are stated over (the  *)
(* events of the last handler, a few history counters), is one record, so  *)
(* that a C function calling another is an operator applied to the result  *)
(* of another.                                                             *)
(***************************************************************************)
EXTENDS Integers, Sequences, FiniteSets, TLC

VARIABLES c

vars == <<c>>

(* ------------------------------ bounds -------------------------------- *)

\* blocking fetches (stylesheets, scripts) one content may start in a run
MaxFetches == 2
\* stylesheet descriptors of one content
MaxSheets == 2
\* object fetches started by box construction
MaxObjects == 2
\* bytes of source one content receives
MaxBytes == 3

\* the notifications the mutation observer is followed through
MaxNodes == 2

\* the calls of html_exec on one content
MaxExecs == 2

\* the calls of fire_dom_keyboard_event on one document
MaxKeys == 2

\* the pages of the session history of the browser window
MaxHistory == 3

(* ----------------------------- vocabulary ----------------------------- *)

Terminal == {"DONE", "ERROR"}

\* What a run of the parser or of a script can do to the content through the
\* mutation observer: nothing, insert a link (a stylesheet fetch starts),
\* insert a script whose source must be fetched, or change an inline style.
ParserEffects == {"none", "link", "script", "style"}
ScriptEffects == {"none", "link"}

\* the root element has not been looked at yet
RootUnseen == <<"?">>

\* fail: the first step of a conversion attempt that fails, if any.
\* root: the name of the document's root element, as a sequence of
\* characters; the empty sequence when the document has no root element.
Inputs ==
    [fail : {"none", "paused", "parse", "encoding", "forms",
             "select", "doc", "box"},
     fin : ParserEffects, exec : ScriptEffects, load : ScriptEffects,
     root : {<<"h", "t", "m", "l">>, <<"H", "T", "m", "L">>,
             <<"s", "v", "g">>, << >>}]

(* ------------------------- the content layer -------------------------- *)

\* What a handler did, in order: the events of the handler that ran last.
Ev(kind, arg) == [ev |-> kind, arg |-> arg, a |-> 0, m |-> 0, r |-> FALSE]

Emit(s, kind, arg) == [s EXCEPT !.trace = Append(@, Ev(kind, arg))]

content_broadcast_error(s, code) == Emit(s, "error", code)

content_set_error(s) ==
    [Emit(s, "set", "ERROR") EXCEPT !.status = "ERROR"]

content_set_ready(s) ==
    [Emit(s, "set", "READY") EXCEPT !.status = "READY"]

content_set_done(s) ==
    [Emit(s, "set", "DONE") EXCEPT !.status = "DONE"]

(* ------------------------ objects and fetches ------------------------- *)

\* html_object_free_objects: every object of the object list is released;
\* a released fetch never calls back, and the counter is left alone.
html_object_free_objects(s) ==
    [Emit(s, "free_objects", "") EXCEPT !.objects = 0]

\* html_object_abort_objects: every object still fetching is told to cancel;
\* k of them report the abort before the call returns, the others later.
html_object_abort_objects(s, k) ==
    [Emit(s, "abort_objects", "") EXCEPT
        !.objects = @ - k, !.active = @ - k]

\* A blocking fetch starts (html_css_process_link, html_process_script).
StartFetch(s) ==
    IF s.started < MaxFetches
    THEN [s EXCEPT !.active = @ + 1, !.fetching = @ + 1, !.started = @ + 1]
    ELSE s

AddSheet(s, modified) ==
    IF Len(s.stylesheets) < MaxSheets
    THEN [s EXCEPT !.stylesheets = Append(@, modified)]
    ELSE s

\* The mutation observer's reaction to what the parser or a script inserted.
Mutation(s, eff) ==
    CASE eff = "link"   -> IF s.started < MaxFetches
                           THEN AddSheet(StartFetch(s), FALSE) ELSE s
      [] eff = "script" -> StartFetch(s)
      [] eff = "style"  -> IF s.stylesheets = << >>
                           THEN AddSheet(s, TRUE)
                           ELSE [s EXCEPT !.stylesheets[1] = TRUE]
      [] OTHER          -> s

\* Scripts run only on an open scripting thread.
ScriptRun(s, eff) ==
    IF s.jsthread = "open" THEN Mutation(s, eff) ELSE s

html_script_exec(s, eff) == ScriptRun(Emit(s, "script_exec", ""), eff)

js_fire_event(s, eff) == ScriptRun(s, eff)

(* ----------------------------- the parser ----------------------------- *)

\* A byte of the source is an ordinary one ("a"), or one that stands for a
\* <meta charset> declaration of one of two character sets ("u", "k").
Charset(b) == IF b = "u" THEN "UTF-8" ELSE "KOI8-R"

IsMeta(b) == b \in {"u", "k"}

\* the non-empty chunks of at most n bytes
Chunks(n) == UNION {[1..k -> {"a", "u", "k"}] : k \in 1..n}

\* what the parser takes to be the encoding as long as nothing tells it
DefaultCharset == "Windows-1252"

\* the index of the first declaration in data, 0 when there is none
RECURSIVE FirstMeta(_, _)
FirstMeta(data, i) ==
    IF i > Len(data) THEN 0
    ELSE IF IsMeta(data[i]) THEN i
    ELSE FirstMeta(data, i + 1)

\* One event of the parser binding: a creation with the encoding asked for
\* and whether it succeeded.
Created(s, enc, ok) ==
    [s EXCEPT !.trace = Append(@,
        [ev |-> "parser_create", arg |-> enc, a |-> 0, m |-> 0, r |-> ok])]

\* dom_hubbub_parser_create: a new parser and a new, empty document; an
\* encoding given at creation is fixed, none asks for detection.
dom_hubbub_parser_create(s, enc, ok) ==
    IF ok
    THEN [Created(s, enc, TRUE) EXCEPT
             !.parser = "live", !.penc = enc, !.pdet = DefaultCharset,
             !.consumed = << >>]
    ELSE Created(s, enc, FALSE)

\* dom_hubbub_parser_parse_chunk: a parser that detects the encoding stops
\* at the first declaration it meets and asks for the change; a parser with
\* a fixed encoding takes everything.
dom_hubbub_parser_parse_chunk(s, data, fails) ==
    LET i == FirstMeta(data, 1)
    IN  IF fails THEN [st |-> s, r |-> "NSERROR_DOM"]
        ELSE IF s.penc = "NULL" /\ i > 0
        THEN [st |-> [s EXCEPT !.consumed = @ \o SubSeq(data, 1, i),
                               !.pdet = Charset(data[i])],
              r  |-> "NSERROR_ENCODING_CHANGE"]
        ELSE [st |-> [s EXCEPT !.consumed = @ \o data], r |-> "NSERROR_OK"]

dom_hubbub_parser_get_encoding(s) ==
    IF s.penc # "NULL" THEN s.penc ELSE s.pdet

(* ------------------------------ html.c -------------------------------- *)

\* the loop of html_can_begin_conversion over the stylesheet array
RECURSIVE AnyModifiedFrom(_, _)
AnyModifiedFrom(sheets, i) ==
    IF i > Len(sheets) THEN FALSE
    ELSE IF sheets[i] THEN TRUE
    ELSE AnyModifiedFrom(sheets, i + 1)

\* fault variant: the stylesheet loop left out
html_can_begin_conversion_counter_only(s) == s.active = 0

html_can_begin_conversion(s) ==
    IF s.active # 0 THEN FALSE
    ELSE ~AnyModifiedFrom(s.stylesheets, 1)

\* A caller evaluates the guard: the counter and the number of modified
\* stylesheets it was evaluated on are noted next to its result.
GuardAt(s, where) ==
    [s EXCEPT !.trace = Append(@,
        [ev |-> "guard", arg |-> where, a |-> s.active,
         m |-> Cardinality({i \in 1..Len(s.stylesheets) :
                               s.stylesheets[i]}),
         r |-> html_can_begin_conversion(s)])]

\* html_proceed_to_done is entered: the status and the counter it finds
Proceed(s) ==
    [s EXCEPT !.trace = Append(@, [Ev("proceed_to_done", s.status)
                                      EXCEPT !.a = s.active])]

\* fault variant: READY becomes DONE whatever the counter
html_proceed_to_done_ignores_counter(s) ==
    CASE s.status = "READY" ->
            Emit(content_set_done(Proceed(s)), "proceed_result", "NSERROR_OK")
      [] s.status \in {"DONE", "LOADING"} ->
            Emit(Proceed(s), "proceed_result", "NSERROR_OK")
      [] OTHER -> Emit(Proceed(s), "proceed_result", "NSERROR_UNKNOWN")

\* the nserror the function returns is noted as the event proceed_result
html_proceed_to_done(s) ==
    CASE s.status = "READY" ->
            IF s.active = 0
            THEN Emit(content_set_done(Proceed(s)),
                      "proceed_result", "NSERROR_OK")
            ELSE Emit(Proceed(s), "proceed_result", "NSERROR_UNKNOWN")
      [] s.status \in {"DONE", "LOADING"} ->
            Emit(Proceed(s), "proceed_result", "NSERROR_OK")
      [] OTHER -> Emit(Proceed(s), "proceed_result", "NSERROR_UNKNOWN")

\* dom_to_box hands back the context of the construction it has scheduled
dom_to_box(s) ==
    [Emit(s, "dom_to_box", "") EXCEPT
        !.box_conversion_context = TRUE,
        !.scheduled = TRUE,
        !.nbox = IF @ < 2 THEN @ + 1 ELSE @,
        !.boxActive = s.active,
        !.boxModified = AnyModifiedFrom(s.stylesheets, 1),
        !.boxAfterStop = s.stopLoading]

\* html_finish_conversion from the creation of the selection context on
html_finish_conversion_build(s, in) ==
    IF in.fail = "select"
    THEN content_set_error(content_broadcast_error(s, "NSERROR_NOMEM"))
    ELSE LET s1 == [s EXCEPT !.select_ctx = TRUE]
             s2 == IF s1.jsthread # "NULL" THEN js_fire_event(s1, in.load)
                   ELSE s1
         IN  IF in.fail = "doc"
             THEN content_set_error(content_broadcast_error(s2, "NSERROR_DOM"))
             ELSE IF in.fail = "box"
             THEN content_set_error(
                      content_broadcast_error(
                          html_object_free_objects(s2), "NSERROR_NOMEM"))
             ELSE dom_to_box(s2)

\* fault variant: without the test of the selection context
html_finish_conversion_rebuilds(s, in) ==
    IF s.aborted
    THEN content_set_error(content_broadcast_error(s, "NSERROR_STOPPED"))
    ELSE html_finish_conversion_build(s, in)

html_finish_conversion(s, in) ==
    IF s.aborted
    THEN content_set_error(content_broadcast_error(s, "NSERROR_STOPPED"))
    ELSE IF s.select_ctx
    THEN Emit(s, "style_change_ignored", "")
    ELSE html_finish_conversion_build(s, in)

\* fault variant: the aborted flag not consulted
html_box_convert_done_ignores_abort(s, success, fail) ==
    LET s0 == Emit([s EXCEPT !.box_conversion_context = FALSE],
                   "box_result", IF success THEN "ok" ELSE "failed")
    IN  IF ~success
        THEN content_set_error(
                 content_broadcast_error(
                     html_object_free_objects(s0), "NSERROR_BOX_CONVERT"))
        ELSE IF fail = "doc"
        THEN content_set_error(content_broadcast_error(s0, "NSERROR_DOM"))
        ELSE IF fail = "imagemap"
        THEN content_set_error(
                 content_broadcast_error(
                     html_object_free_objects(
                         Emit(s0, "imagemap_extract", "failed")),
                     "NSERROR_NOMEM"))
        ELSE html_proceed_to_done(
                 content_set_ready(
                     [Emit(s0, "imagemap_extract", "ok") EXCEPT
                         !.parser = "NULL"]))

\* fault variant: a failed or aborted construction keeps the objects
html_box_convert_done_keeps_objects(s, success, fail) ==
    LET s0 == Emit([s EXCEPT !.box_conversion_context = FALSE],
                   "box_result", IF success THEN "ok" ELSE "failed")
    IN  IF ~success \/ s0.aborted
        THEN content_set_error(
                 content_broadcast_error(
                     s0,
                     IF ~success THEN "NSERROR_BOX_CONVERT"
                     ELSE "NSERROR_STOPPED"))
        ELSE IF fail = "doc"
        THEN content_set_error(content_broadcast_error(s0, "NSERROR_DOM"))
        ELSE IF fail = "imagemap"
        THEN content_set_error(
                 content_broadcast_error(
                     html_object_free_objects(
                         Emit(s0, "imagemap_extract", "failed")),
                     "NSERROR_NOMEM"))
        ELSE html_proceed_to_done(
                 content_set_ready(
                     [Emit(s0, "imagemap_extract", "ok") EXCEPT
                         !.parser = "NULL"]))

html_box_convert_done(s, success, fail) ==
    LET s0 == Emit([s EXCEPT !.box_conversion_context = FALSE],
                   "box_result", IF success THEN "ok" ELSE "failed")
    IN  IF ~success \/ s0.aborted
        THEN content_set_error(
                 content_broadcast_error(
                     html_object_free_objects(s0),
                     IF ~success THEN "NSERROR_BOX_CONVERT"
                     ELSE "NSERROR_STOPPED"))
        ELSE IF fail = "doc"
        THEN content_set_error(content_broadcast_error(s0, "NSERROR_DOM"))
        ELSE IF fail = "imagemap"
        THEN content_set_error(
                 content_broadcast_error(
                     html_object_free_objects(
                         Emit(s0, "imagemap_extract", "failed")),
                     "NSERROR_NOMEM"))
        ELSE html_proceed_to_done(
                 content_set_ready(
                     [Emit(s0, "imagemap_extract", "ok") EXCEPT
                         !.parser = "NULL"]))

Return(s, r) == [s EXCEPT !.ret = r]

\* dom_hubbub_parser_completed: the rest of the input is flushed through the
\* parser, which may insert new nodes; it pauses on a script whose source has
\* to be fetched first.
dom_hubbub_parser_completed(s, in) ==
    CASE in.fail = "paused" /\ s.started < MaxFetches ->
            [st |-> Emit(StartFetch(s), "parser_completed", "PAUSED"),
             r |-> "PAUSED"]
      [] in.fail = "parse" ->
            [st |-> Emit(s, "parser_completed", "ERR"), r |-> "ERR"]
      [] OTHER ->
            [st |-> Emit(Mutation(s, in.fin), "parser_completed", "OK"),
             r |-> "OK"]

UpperCase ==
    <<"A", "B", "C", "D", "E", "F", "G", "H", "I", "J", "K", "L", "M",
      "N", "O", "P", "Q", "R", "S", "T", "U", "V", "W", "X", "Y", "Z">>

\* the lower-case form of an ASCII character
LowerChar(ch) ==
    IF \E i \in 1..Len(UpperCase) : UpperCase[i] = ch
    THEN <<"a", "b", "c", "d", "e", "f", "g", "h", "i", "j", "k", "l", "m",
           "n", "o", "p", "q", "r", "s", "t", "u", "v", "w", "x", "y",
           "z">>[CHOOSE i \in 1..Len(UpperCase) : UpperCase[i] = ch]
    ELSE ch

corestring_lwc_html == <<"h", "t", "m", "l">>

dom_string_caseless_lwc_isequal(name, lwc) ==
    /\ Len(name) = Len(lwc)
    /\ \A i \in 1..Len(name) : LowerChar(name[i]) = lwc[i]

\* dom_document_get_document_element and dom_node_get_node_name: the root of
\* the parsed document is what it is from the first time it is looked at
RootSeen(s, name) ==
    IF s.root = RootUnseen THEN [s EXCEPT !.root = name] ELSE s

\* fault variant: the pending scripts are not executed
html_begin_conversion_proper_skips_scripts(s, in) ==
    LET s2 == [s EXCEPT !.conversion_begun = TRUE]
        s3 == RootSeen(
                  [s2 EXCEPT !.encoding =
                      IF @ = "NULL"
                      THEN dom_hubbub_parser_get_encoding(s2) ELSE @],
                  in.root)
    IN  IF s2.encoding = "NULL" /\ in.fail = "encoding"
        THEN Return(content_broadcast_error(s2, "NSERROR_NOMEM"), FALSE)
        ELSE IF ~dom_string_caseless_lwc_isequal(s3.root, corestring_lwc_html)
        THEN Return(content_broadcast_error(Emit(s3, "root", "bad"),
                                            "NSERROR_DOM"), FALSE)
        ELSE IF in.fail = "forms"
        THEN Return(content_broadcast_error(
                        Emit(Emit(s3, "root", "ok"), "forms", ""),
                        "NSERROR_NOMEM"), FALSE)
        ELSE LET s4 == Emit(Emit(s3, "root", "ok"), "forms", "")
             IN  IF s4.active = 0
                 THEN Return(html_finish_conversion(s4, in), TRUE)
                 ELSE Return(s4, TRUE)

\* fault variant: the root element is not validated
html_begin_conversion_proper_any_root(s, in) ==
    LET s2 == html_script_exec([s EXCEPT !.conversion_begun = TRUE], in.exec)
        s3 == RootSeen(
                  [s2 EXCEPT !.encoding =
                      IF @ = "NULL"
                      THEN dom_hubbub_parser_get_encoding(s2) ELSE @],
                  in.root)
    IN  IF s2.encoding = "NULL" /\ in.fail = "encoding"
        THEN Return(content_broadcast_error(s2, "NSERROR_NOMEM"), FALSE)
        ELSE IF FALSE
        THEN Return(content_broadcast_error(Emit(s3, "root", "bad"),
                                            "NSERROR_DOM"), FALSE)
        ELSE IF in.fail = "forms"
        THEN Return(content_broadcast_error(
                        Emit(Emit(s3, "root", "ok"), "forms", ""),
                        "NSERROR_NOMEM"), FALSE)
        ELSE LET s4 == Emit(Emit(s3, "root", "ok"), "forms", "")
             IN  IF s4.active = 0
                 THEN Return(html_finish_conversion(s4, in), TRUE)
                 ELSE Return(s4, TRUE)

html_begin_conversion_proper(s, in) ==
    LET s2 == html_script_exec([s EXCEPT !.conversion_begun = TRUE], in.exec)
        s3 == RootSeen(
                  [s2 EXCEPT !.encoding =
                      IF @ = "NULL"
                      THEN dom_hubbub_parser_get_encoding(s2) ELSE @],
                  in.root)
    IN  IF s2.encoding = "NULL" /\ in.fail = "encoding"
        THEN Return(content_broadcast_error(s2, "NSERROR_NOMEM"), FALSE)
        ELSE IF ~dom_string_caseless_lwc_isequal(s3.root, corestring_lwc_html)
        THEN Return(content_broadcast_error(Emit(s3, "root", "bad"),
                                            "NSERROR_DOM"), FALSE)
        ELSE IF in.fail = "forms"
        THEN Return(content_broadcast_error(
                        Emit(Emit(s3, "root", "ok"), "forms", ""),
                        "NSERROR_NOMEM"), FALSE)
        ELSE LET s4 == Emit(Emit(s3, "root", "ok"), "forms", "")
             IN  IF s4.active = 0
                 THEN Return(html_finish_conversion(s4, in), TRUE)
                 ELSE Return(s4, TRUE)

\* fault variant: a paused finalization taken for a failure
html_begin_conversion_pause_fails(s, in) ==
    LET p  == IF s.parse_completed THEN [st |-> s, r |-> "OK"]
              ELSE dom_hubbub_parser_completed(s, in)
        s1 == [p.st EXCEPT !.parse_completed = TRUE]
    IN  IF p.r # "OK"
        THEN Return(content_broadcast_error(p.st, "NSERROR_DOM"), FALSE)
        ELSE LET s1g == GuardAt(s1, "html_begin_conversion")
             IN  IF ~html_can_begin_conversion(s1)
                 THEN Return([s1g EXCEPT !.recheckFailed = TRUE], TRUE)
                 ELSE IF s1.aborted
                 THEN Return(content_broadcast_error(content_set_error(s1g),
                                                     "NSERROR_STOPPED"), FALSE)
                 ELSE html_begin_conversion_proper(s1g, in)

\* fault variant: the guard not acted on after the finalization
html_begin_conversion_no_recheck(s, in) ==
    LET p  == IF s.parse_completed THEN [st |-> s, r |-> "OK"]
              ELSE dom_hubbub_parser_completed(s, in)
        s1 == [p.st EXCEPT !.parse_completed = TRUE]
    IN  IF p.r = "PAUSED" /\ p.st.active > 0
        THEN Return(p.st, TRUE)
        ELSE IF p.r # "OK"
        THEN Return(content_broadcast_error(p.st, "NSERROR_DOM"), FALSE)
        ELSE LET s1g == GuardAt(s1, "html_begin_conversion")
             IN  IF s1.aborted
                 THEN Return(content_broadcast_error(content_set_error(s1g),
                                                     "NSERROR_STOPPED"), FALSE)
                 ELSE html_begin_conversion_proper(s1g, in)

html_begin_conversion(s, in) ==
    LET p  == IF s.parse_completed THEN [st |-> s, r |-> "OK"]
              ELSE dom_hubbub_parser_completed(s, in)
        s1 == [p.st EXCEPT !.parse_completed = TRUE]
    IN  IF p.r = "PAUSED" /\ p.st.active > 0
        THEN Return(p.st, TRUE)
        ELSE IF p.r # "OK"
        THEN Return(content_broadcast_error(p.st, "NSERROR_DOM"), FALSE)
        ELSE LET s1g == GuardAt(s1, "html_begin_conversion")
             IN  IF ~html_can_begin_conversion(s1)
                 THEN Return([s1g EXCEPT !.recheckFailed = TRUE], TRUE)
                 ELSE IF s1.aborted
                 THEN Return(content_broadcast_error(content_set_error(s1g),
                                                     "NSERROR_STOPPED"), FALSE)
                 ELSE html_begin_conversion_proper(s1g, in)

\* fault variant: the HTML fetch counted down twice
html_convert_twice(s, in) ==
    LET s1 == [s EXCEPT !.active = @ - 2, !.dataDone = TRUE]
        s1g == GuardAt(s1, "html_convert")
    IN  IF html_can_begin_conversion(s1)
        THEN html_begin_conversion(s1g, in)
        ELSE Return(s1g, TRUE)

\* fault variant: only a fetch callback may begin the conversion
html_convert_never_begins(s, in) ==
    LET s1 == [s EXCEPT !.active = @ - 1, !.dataDone = TRUE]
    IN  Return(GuardAt(s1, "html_convert"), TRUE)

html_convert(s, in) ==
    LET s1 == [s EXCEPT !.active = @ - 1, !.dataDone = TRUE]
        s1g == GuardAt(s1, "html_convert")
    IN  IF html_can_begin_conversion(s1)
        THEN html_begin_conversion(s1g, in)
        ELSE Return(s1g, TRUE)

\* html_stop entered in the given status: noted for the properties
StopSeen(s) ==
    CASE s.status = "LOADING" -> [s EXCEPT !.stopLoading = TRUE]
      [] s.status = "READY" /\ s.objects > 0 -> [s EXCEPT !.stopReady = TRUE]
      [] OTHER -> s

\* fault variant: LOADING does not set the aborted flag
html_stop_forgets_flag(s, k) ==
    CASE s.status = "LOADING" ->
            [StopSeen(s) EXCEPT
                !.jsthread = IF @ = "NULL" THEN @ ELSE "closed"]
      [] s.status = "READY" ->
            LET s1 == html_object_abort_objects(StopSeen(s), k)
            IN  IF s1.status = "READY" /\ s1.active = 0
                THEN content_set_done(s1) ELSE s1
      [] OTHER -> s

\* fault variant: READY never moves on to DONE
html_stop_leaves_ready(s, k) ==
    CASE s.status = "LOADING" ->
            [StopSeen(s) EXCEPT
                !.aborted = TRUE,
                !.jsthread = IF @ = "NULL" THEN @ ELSE "closed"]
      [] s.status = "READY" -> html_object_abort_objects(StopSeen(s), k)
      [] OTHER -> s

html_stop(s, k) ==
    CASE s.status = "LOADING" ->
            [StopSeen(s) EXCEPT
                !.aborted = TRUE,
                !.jsthread = IF @ = "NULL" THEN @ ELSE "closed"]
      [] s.status = "READY" ->
            LET s1 == html_object_abort_objects(StopSeen(s), k)
            IN  IF s1.status = "READY" /\ s1.active = 0
                THEN content_set_done(s1) ELSE s1
      [] OTHER -> s

(* ------------------------- the parser adapter ------------------------- *)

\* What can go wrong while a chunk is processed.
EncInputs ==
    [fail : {"none", "parse", "get_encoding", "replay"},
     create1 : BOOLEAN, create2 : BOOLEAN]

\* fault variant: only the chunk at hand is parsed again
html_process_encoding_change_replays_chunk(s, data, in) ==
    IF in.fail = "get_encoding"
    THEN [st |-> s, r |-> "NSERROR_NOMEM"]
    ELSE LET s1 == Emit([s EXCEPT
                            !.encoding = dom_hubbub_parser_get_encoding(s)],
                        "encoding_change", "")
             s2 == Emit([s1 EXCEPT !.parser = "NULL", !.consumed = << >>],
                        "parser_destroy", "")
             p1 == dom_hubbub_parser_create(s2, s2.encoding, in.create1)
             p2 == IF p1.parser = "live" THEN p1
                   ELSE dom_hubbub_parser_create(
                            [p1 EXCEPT !.encoding = "Windows-1252"],
                            "Windows-1252", in.create2)
         IN  IF p2.parser # "live"
             THEN [st |-> p2, r |-> "NSERROR_DOM"]
             ELSE LET q == dom_hubbub_parser_parse_chunk(
                               p2, data, in.fail = "replay")
                  IN  [st |-> Emit(q.st, "replay", q.r), r |-> q.r]

\* fault variant: no second attempt when the detected encoding is refused
html_process_encoding_change_no_fallback(s, data, in) ==
    IF in.fail = "get_encoding"
    THEN [st |-> s, r |-> "NSERROR_NOMEM"]
    ELSE LET s1 == Emit([s EXCEPT
                            !.encoding = dom_hubbub_parser_get_encoding(s)],
                        "encoding_change", "")
             s2 == Emit([s1 EXCEPT !.parser = "NULL", !.consumed = << >>],
                        "parser_destroy", "")
             p1 == dom_hubbub_parser_create(s2, s2.encoding, in.create1)
             p2 == p1
         IN  IF p2.parser # "live"
             THEN [st |-> p2, r |-> "NSERROR_DOM"]
             ELSE LET q == dom_hubbub_parser_parse_chunk(
                               p2, p2.source, in.fail = "replay")
                  IN  [st |-> Emit(q.st, "replay", q.r), r |-> q.r]

\* content__get_source_data is the whole source received so far, the chunk
\* at hand included.
html_process_encoding_change(s, data, in) ==
    IF in.fail = "get_encoding"
    THEN [st |-> s, r |-> "NSERROR_NOMEM"]
    ELSE LET s1 == Emit([s EXCEPT
                            !.encoding = dom_hubbub_parser_get_encoding(s)],
                        "encoding_change", "")
             s2 == Emit([s1 EXCEPT !.parser = "NULL", !.consumed = << >>],
                        "parser_destroy", "")
             p1 == dom_hubbub_parser_create(s2, s2.encoding, in.create1)
             p2 == IF p1.parser = "live" THEN p1
                   ELSE dom_hubbub_parser_create(
                            [p1 EXCEPT !.encoding = "Windows-1252"],
                            "Windows-1252", in.create2)
         IN  IF p2.parser # "live"
             THEN [st |-> p2, r |-> "NSERROR_DOM"]
             ELSE LET q == dom_hubbub_parser_parse_chunk(
                               p2, p2.source, in.fail = "replay")
                  IN  [st |-> Emit(q.st, "replay", q.r), r |-> q.r]

html_process_data(s, data, in) ==
    LET p == dom_hubbub_parser_parse_chunk(s, data, in.fail = "parse")
        q == IF p.r = "NSERROR_ENCODING_CHANGE"
             THEN html_process_encoding_change(p.st, data, in)
             ELSE p
    IN  IF q.r # "NSERROR_OK"
        THEN Return(content_broadcast_error(q.st, q.r), FALSE)
        ELSE Return(q.st, TRUE)

\* The content layer hands a chunk to the handler after adding it to the
\* source; a false return marks the error and ends the fetch.
content_process_data(s, data, in) ==
    LET s1 == html_process_data(
                  [s EXCEPT !.source = @ \o data,
                            !.nchunks = IF @ < MaxBytes THEN @ + 1 ELSE @],
                  data, in)
    IN  IF s1.ret THEN s1 ELSE content_set_error(s1)

(* --------------------- callers outside html.c ------------------------- *)

\* The content layer's data-complete step: a false return marks the error.
content_convert(s, in) ==
    LET s1 == html_convert(s, in)
    IN  IF s1.ret THEN s1 ELSE content_set_error(s1)

\* The completion callback of a stylesheet or script fetch: the counter is
\* decremented and the guard re-evaluated.
html_convert_css_callback(s, in) ==
    LET s1 == [s EXCEPT !.active = @ - 1, !.fetching = @ - 1]
        s1g == GuardAt(s1, "callback")
    IN  IF html_can_begin_conversion(s1)
        THEN html_begin_conversion(s1g, in) ELSE s1g

\* The scheduled processing of modified stylesheets.
html_css_process_modified_styles(s, in) ==
    LET s1 == [s EXCEPT !.stylesheets =
                   [i \in 1..Len(s.stylesheets) |-> FALSE]]
        s1g == GuardAt(s1, "callback")
    IN  IF html_can_begin_conversion(s1)
        THEN html_begin_conversion(s1g, in) ELSE s1g

\* Box construction starts the fetch of an object with a box.
html_fetch_object(s) ==
    [s EXCEPT !.active = @ + 1, !.objects = @ + 1]

\* An object's fetch reports completion, an error or its abort.
html_object_callback(s) ==
    html_proceed_to_done([s EXCEPT !.active = @ - 1, !.objects = @ - 1])

(* ------------------------ the element handlers ------------------------ *)

\* Texts are sequences of characters.  Absent is the NULL that
\* dom_element_get_attribute gives for an attribute the element does not
\* carry; an attribute with an empty value gives the empty text.
Absent == <<"(null)">>

\* the byte a C string of length zero starts with
NUL == "NUL"

FirstChar(text) == IF text = << >> THEN NUL ELSE text[1]

\* the URL the content was fetched from
content_get_url == <<"h", "t", "t", "p", ":", "/", "/", "x", "/", "y", "/">>

\* An element as the mutation observer sees it: x and y are the two
\* attributes its handler reads (base: href and target; meta: http-equiv and
\* content; img: src and nothing), id tells two elements of a kind apart.
\* pins is the parser-inserted flag of a script element.
NoNode ==
    [tag |-> "none", id |-> 0, x |-> Absent, y |-> Absent, pins |-> FALSE]

\* what can go wrong inside a handler: a libdom call raises an exception,
\* nsurl_create or nsurl_join reports an error, strdup or strndup finds no
\* memory, or the helper the handler ends with reports failure
\* within: dom_node_contains finds the node in the document; images: the
\* foreground_images option; text: the text content of the node, whitespace
\* squashed
ElemInputs ==
    [fail : {"none", "dom", "url", "nomem", "handler"},
     within : BOOLEAN, images : BOOLEAN, text : {"A", "B"}]

dom_element_get_attribute(value, in) ==
    IF in.fail = "dom" THEN [exc |-> TRUE, val |-> Absent]
                       ELSE [exc |-> FALSE, val |-> value]

nsurl_create(text, in) == [ok |-> in.fail # "url", url |-> text]

corestring_lwc__blank == <<"_", "b", "l", "a", "n", "k">>
corestring_lwc__self == <<"_", "s", "e", "l", "f">>
corestring_lwc__parent == <<"_", "p", "a", "r", "e", "n", "t">>
corestring_lwc__top == <<"_", "t", "o", "p">>

\* the validation of html_process_base, lines 455-463
ValidTarget(text) ==
    \/ FirstChar(text) # "_"
    \/ dom_string_caseless_lwc_isequal(text, corestring_lwc__blank)
    \/ dom_string_caseless_lwc_isequal(text, corestring_lwc__self)
    \/ dom_string_caseless_lwc_isequal(text, corestring_lwc__parent)
    \/ dom_string_caseless_lwc_isequal(text, corestring_lwc__top)

\* fault variant: the first href that parses is kept
html_process_base_first_href(s, node, in) ==
    LET href == dom_element_get_attribute(node.x, in)
        u    == nsurl_create(href.val, in)
        s1   == IF ~href.exc /\ href.val # Absent /\ u.ok
                   /\ s.base_url = content_get_url
                THEN [s EXCEPT !.base_url = u.url] ELSE s
        tgt  == dom_element_get_attribute(node.y, in)
    IN  IF s1.base_target # Absent THEN s1
        ELSE IF ~tgt.exc /\ tgt.val # Absent /\ ValidTarget(tgt.val)
                /\ in.fail # "nomem"
             THEN [s1 EXCEPT !.base_target = tgt.val]
             ELSE s1

html_process_base(s, node, in) ==
    LET href == dom_element_get_attribute(node.x, in)
        u    == nsurl_create(href.val, in)
        s1   == IF ~href.exc /\ href.val # Absent /\ u.ok
                THEN [s EXCEPT !.base_url = u.url] ELSE s
        tgt  == dom_element_get_attribute(node.y, in)
    IN  IF s1.base_target # Absent THEN s1
        ELSE IF ~tgt.exc /\ tgt.val # Absent /\ ValidTarget(tgt.val)
                /\ in.fail # "nomem"
             THEN [s1 EXCEPT !.base_target = tgt.val]
             ELSE s1

(* ---- html_meta_refresh_process_element ---- *)

Digits == <<"0", "1", "2", "3", "4", "5", "6", "7", "8", "9">>

IsDigit(ch) == \E i \in 1..Len(Digits) : Digits[i] = ch

DigitVal(ch) == (CHOOSE i \in 1..Len(Digits) : Digits[i] = ch) - 1

ascii_is_space(ch) == ch \in {" ", "\t", "\n", "\f", "\r"}

\* while (url < end && *url is in set) url++, from position i; Len + 1 is end
Scan(text, i, set) ==
    LET stops == {j \in i..Len(text) : text[j] \notin set}
    IN  IF stops = {} THEN Len(text) + 1
        ELSE CHOOSE j \in stops : \A k \in stops : j <= k

\* while (url < end && *url is not in set) url++
ScanNot(text, i, set) ==
    LET stops == {j \in i..Len(text) : text[j] \in set}
    IN  IF stops = {} THEN Len(text) + 1
        ELSE CHOOSE j \in stops : \A k \in stops : j <= k

CharsOf(text) == {text[i] : i \in 1..Len(text)}

SpacesOf(text) == {ch \in CharsOf(text) : ascii_is_space(ch)}

DigitsOf(text) == {ch \in CharsOf(text) : IsDigit(ch)}

\* A long is kept as 16-bit limbs, least significant first: ten times the
\* limbs plus carry, with the carry out of the top limb as last element.
RECURSIVE MulAdd(_, _)
MulAdd(limbs, carry) ==
    IF limbs = << >> THEN <<carry>>
    ELSE LET x == Head(limbs) * 10 + carry
         IN  <<x % 65536>> \o MulAdd(Tail(limbs), x \div 65536)

LONG_MAX(n) == [i \in 1..n |-> IF i = n THEN 32767 ELSE 65535]

RECURSIVE StrtolDigits(_, _, _)
StrtolDigits(acc, digits, n) ==
    IF digits = << >> THEN acc
    ELSE LET r == MulAdd(acc, DigitVal(Head(digits)))
         IN  IF r[n + 1] > 0 \/ r[n] >= 32768
             THEN LONG_MAX(n)
             ELSE StrtolDigits(SubSeq(r, 1, n), Tail(digits), n)

\* strtol(url, &new_url, 10) on a text whose character at `from` is a digit:
\* the digits are consumed, a value beyond LONG_MAX gives LONG_MAX; bits is
\* the width of long
strtol(text, from, bits) ==
    LET stop == Scan(text, from, DigitsOf(text))
        n    == bits \div 16
    IN  [val |-> StrtolDigits([i \in 1..n |-> 0],
                              SubSeq(text, from, stop - 1), n),
         new_url |-> stop]

\* (int) of a long: the low 32 bits, two's complement
IntOfLong(limbs) ==
    IF limbs[2] >= 32768 THEN (limbs[2] - 65536) * 65536 + limbs[1]
    ELSE limbs[2] * 65536 + limbs[1]

\* nsurl_join for the references of the model, which are absolute URLs or
\* names relative to the directory of the base
nsurl_join(base, rel, in) ==
    [ok |-> in.fail # "url",
     url |-> IF ":" \in CharsOf(rel) THEN rel
             ELSE LET slashes == {i \in 1..Len(base) : base[i] = "/"}
                      dir == IF slashes = {} THEN << >>
                             ELSE SubSeq(base, 1,
                                         CHOOSE i \in slashes :
                                             \A k \in slashes : k <= i)
                  IN  dir \o rel]

corestring_lwc_refresh == <<"r", "e", "f", "r", "e", "s", "h">>

content_broadcast_refresh(s, delay) ==
    [s EXCEPT !.trace = Append(@, [Ev("refresh", "") EXCEPT !.a = delay]),
              !.nrefresh = @ + 1]

\* the result of the handler: the content and the nserror it returns
Handled(s, error) == [st |-> s, error |-> error]

\* fault variant: a delay-only directive refreshes to the base URL
RefreshSelf_base(s) == [s EXCEPT !.base_refresh = s.base_url]

\* lines 566-567: just a delay, so the current page is refreshed
RefreshSelf(s) == [s EXCEPT !.base_refresh = content_get_url]

\* fault variant: the delay is broadcast as strtol gave it
MinimumDelay_none(delay) == delay

\* lines 533-538: the minimum refresh delay of one second
MinimumDelay(delay) == IF delay < 1 THEN 1 ELSE delay

\* fault variant: any three characters pass for the keyword
strncasecmp_url_any(content, p) == TRUE

\* strncasecmp(url, "url", 3) == 0
strncasecmp_url(content, p) ==
    dom_string_caseless_lwc_isequal(SubSeq(content, p, p + 2),
                                    <<"u", "r", "l">>)

\* lines 506-659: the content attribute, once it is known to be there
html_meta_refresh_parse(s, content, in) ==
    LET end   == Len(content) + 1
        p0    == Scan(content, 1, SpacesOf(content))
        num   == strtol(content, p0, s.long_bits)
        delay == MinimumDelay(IntOfLong(num.val))
        p1    == Scan(content, num.new_url, DigitsOf(content) \cup {"."})
        p2    == Scan(content, p1, SpacesOf(content))
        p3    == IF p2 < end /\ content[p2] = ";" THEN p2 + 1 ELSE p2
        p4    == Scan(content, p3, SpacesOf(content))
        p5    == p4 + 3
        p6    == Scan(content, p5, SpacesOf(content))
        p7    == Scan(content, p6 + 1, SpacesOf(content))
        quote == IF p7 < end /\ content[p7] \in {"\"", "'"}
                 THEN content[p7] ELSE NUL
        refresh == IF quote # NUL THEN p7 + 1 ELSE p7
        url   == IF quote # NUL THEN ScanNot(content, refresh, {quote})
                 ELSE ScanNot(content, refresh, SpacesOf(content))
        nsurl == nsurl_join(s.base_url,
                            SubSeq(content, refresh, url - 1), in)
    IN  IF p0 = end \/ ~IsDigit(content[p0]) THEN Handled(s, "OK")
        ELSE IF p4 = end
        THEN Handled(content_broadcast_refresh(RefreshSelf(s), delay), "OK")
        ELSE IF ~(p4 <= end - 3) THEN Handled(s, "OK")
        ELSE IF ~strncasecmp_url(content, p4) THEN Handled(s, "OK")
        ELSE IF ~(p6 < end) THEN Handled(s, "OK")
        ELSE IF content[p6] # "=" THEN Handled(s, "OK")
        ELSE IF ~(url > refresh) THEN Handled(s, "OK")
        ELSE IF in.fail = "nomem" THEN Handled(s, "NOMEM")
        ELSE IF nsurl.ok
        THEN Handled([content_broadcast_refresh(
                          [s EXCEPT !.base_refresh = nsurl.url], delay)
                         EXCEPT !.refresh = TRUE], "OK")
        ELSE Handled(s, "BAD_URL")

html_meta_refresh_process_element(s, node, in) ==
    LET equiv   == dom_element_get_attribute(node.x, in)
        content == dom_element_get_attribute(node.y, in)
    IN  IF equiv.exc THEN Handled(s, "DOM")
        ELSE IF equiv.val = Absent THEN Handled(s, "OK")
        ELSE IF ~dom_string_caseless_lwc_isequal(equiv.val,
                                                 corestring_lwc_refresh)
        THEN Handled(s, "OK")
        ELSE IF content.exc THEN Handled(s, "DOM")
        ELSE IF content.val = Absent THEN Handled(s, "OK")
        ELSE html_meta_refresh_parse(s, content.val, in)

(* ---- the mutation observer ---- *)

\* the result of a handler that returns bool
Done(s, success) == [st |-> s, ok |-> success]

html_process_title(s, node, in) ==
    IF in.fail \in {"dom", "nomem", "handler"} THEN Done(s, FALSE)
    ELSE Done([Emit(s, "set_title", in.text) EXCEPT !.title_text = in.text],
              TRUE)

html_process_img(s, node, in) ==
    LET src == dom_element_get_attribute(node.x, in)
        url == nsurl_join(s.base_url, src.val, in)
    IN  IF ~in.images THEN Done(s, TRUE)
        ELSE IF src.exc \/ src.val = Absent THEN Done(s, TRUE)
        ELSE IF ~url.ok THEN Done(s, FALSE)
        ELSE IF in.fail = "handler" THEN Done(s, FALSE)
        ELSE Done(html_fetch_object(s), TRUE)

\* html_css_process_link, html_process_link, html_css_process_style and
\* html_css_update_style: a stylesheet is fetched or marked modified, or the
\* helper fails and leaves the content alone
html_css_process(s, eff, in) ==
    IF in.fail # "none" THEN Done(s, FALSE) ELSE Done(Mutation(s, eff), TRUE)

\* html_process_script: the script is fetched or run
html_process_script(s, in) ==
    LET s1 == [Emit(s, "process_script", "") EXCEPT
                  !.script = IF @ = "detached" THEN "processed late"
                             ELSE "processed"]
    IN  IF in.fail = "handler" THEN s1 ELSE Mutation(s1, "script")

\* fault variant: a script outside the document is processed at once
dom_SCRIPT_showed_up_anywhere(s, node, in) ==
    IF ~s.enable_scripting THEN s
    ELSE IF in.fail = "dom" THEN s
    ELSE IF node.pins THEN s
    ELSE html_process_script(s, in)

dom_SCRIPT_showed_up(s, node, in) ==
    IF ~s.enable_scripting THEN s
    ELSE IF in.fail = "dom" THEN s
    ELSE IF node.pins THEN s
    ELSE IF ~in.within THEN s
    ELSE html_process_script(s, in)

\* the scripting tail of the insertion callback, lines 900-917
js_handle_new_element(s) ==
    IF s.enable_scripting /\ s.jsthread = "NULL"
    THEN [s EXCEPT !.jsthread = "open"] ELSE s

\* fault variant: a handler that fails puts the content in error
dom_default_action_DOMNodeInserted_cb_reports(s, node, in) ==
    LET r == CASE node.tag = "link"  -> html_css_process(s, "link", in)
               [] node.tag = "meta"  ->
                    IF s.refresh THEN Done(s, TRUE)
                    ELSE LET h == html_meta_refresh_process_element(
                                      s, node, in)
                         IN  Done(Emit(h.st, "meta_refresh", h.error),
                                  h.error = "OK")
               [] node.tag = "title" ->
                    IF s.title # 0 THEN Done(s, TRUE)
                    ELSE Done([s EXCEPT !.title = node.id], TRUE)
               [] node.tag = "base"  ->
                    Done(html_process_base(s, node, in), TRUE)
               [] node.tag = "img"   -> html_process_img(s, node, in)
               [] node.tag = "style" -> html_css_process(s, "style", in)
               [] node.tag = "script" ->
                    Done(dom_SCRIPT_showed_up(s, node, in), TRUE)
               [] OTHER -> Done(s, TRUE)
    IN  IF r.ok THEN js_handle_new_element(r.st)
        ELSE content_set_error(content_broadcast_error(r.st, "NOMEM"))

\* fault variant: a second title element replaces the remembered one
dom_default_action_DOMNodeInserted_cb_last_title(s, node, in) ==
    LET r == CASE node.tag = "link"  -> html_css_process(s, "link", in).st
               [] node.tag = "meta"  ->
                    IF s.refresh THEN s
                    ELSE LET h == html_meta_refresh_process_element(
                                      s, node, in)
                         IN  Emit(h.st, "meta_refresh", h.error)
               [] node.tag = "title" -> [s EXCEPT !.title = node.id]
               [] node.tag = "base"  -> html_process_base(s, node, in)
               [] node.tag = "img"   -> html_process_img(s, node, in).st
               [] node.tag = "style" -> html_css_process(s, "style", in).st
               [] node.tag = "script" -> dom_SCRIPT_showed_up(s, node, in)
               [] OTHER -> s
    IN  js_handle_new_element(r)

dom_default_action_DOMNodeInserted_cb(s, node, in) ==
    LET r == CASE node.tag = "link"  -> html_css_process(s, "link", in).st
               [] node.tag = "meta"  ->
                    IF s.refresh THEN s
                    ELSE LET h == html_meta_refresh_process_element(
                                      s, node, in)
                         IN  Emit(h.st, "meta_refresh", h.error)
               [] node.tag = "title" ->
                    IF s.title # 0 THEN s ELSE [s EXCEPT !.title = node.id]
               [] node.tag = "base"  -> html_process_base(s, node, in)
               [] node.tag = "img"   -> html_process_img(s, node, in).st
               [] node.tag = "style" -> html_css_process(s, "style", in).st
               [] node.tag = "script" -> dom_SCRIPT_showed_up(s, node, in)
               [] OTHER -> s
    IN  js_handle_new_element(r)

dom_default_action_DOMNodeInsertedIntoDocument_cb(s, node, in) ==
    IF node.tag = "script" THEN dom_SCRIPT_showed_up(s, node, in) ELSE s

dom_default_action_DOMSubtreeModified_cb(s, node, in) ==
    IF node.tag = "title" /\ s.title = node.id
    THEN html_process_title(s, node, in).st
    ELSE IF node.tag = "style" THEN html_css_process(s, "style", in).st
    ELSE s

(* ------------------------------ html_destroy -------------------------- *)

\* cancel_dom_to_box: the construction behind the context is taken off the
\* schedule and its context freed
cancel_dom_to_box(s) == [Emit(s, "cancel_dom_to_box", "") EXCEPT !.scheduled = FALSE]

\* fault variant: an outstanding construction is left scheduled
html_destroy_leaves_construction(s) ==
    LET s2 == [s EXCEPT
                  !.jsthread = "NULL", !.parser = "NULL",
                  !.encoding = "NULL", !.base_target = Absent,
                  !.select_ctx = FALSE, !.stylesheets = << >>]
    IN  html_object_free_objects(s2)

html_destroy(s) ==
    LET s1 == IF s.box_conversion_context THEN cancel_dom_to_box(s) ELSE s
        s2 == [s1 EXCEPT
                  !.jsthread = "NULL", !.parser = "NULL",
                  !.encoding = "NULL", !.base_target = Absent,
                  !.select_ctx = FALSE, !.stylesheets = << >>]
    IN  html_object_free_objects(s2)

(* ------------------------------ the machine --------------------------- *)

\* the content before html_create_html_data has run
Blank ==
    [status |-> "LOADING", active |-> 0, stylesheets |-> << >>,
     parse_completed |-> FALSE, conversion_begun |-> FALSE,
     aborted |-> FALSE, select_ctx |-> FALSE,
     box_conversion_context |-> FALSE, scheduled |-> FALSE,
     parser |-> "NULL",
     jsthread |-> "NULL", enable_scripting |-> FALSE,
     encoding |-> "NULL", objects |-> 0,
     fetching |-> 0, started |-> 0, dataDone |-> FALSE,
     trace |-> << >>, op |-> "none", ret |-> TRUE,
     nbox |-> 0, boxActive |-> 0, boxModified |-> FALSE,
     boxAfterStop |-> FALSE,
     stopLoading |-> FALSE, stopReady |-> FALSE,
     recheckFailed |-> FALSE, root |-> RootUnseen,
     penc |-> "NULL", pdet |-> "NULL", consumed |-> << >>,
     source |-> << >>, nchunks |-> 0, penc0 |-> "NULL",
     base_url |-> Absent, base_target |-> Absent, refresh |-> FALSE,
     base_refresh |-> Absent, title |-> 0, title_text |-> "",
     script |-> "unseen", node |-> NoNode, nnodes |-> 0,
     last_href |-> Absent, first_target |-> Absent, nrefresh |-> 0,
     long_bits |-> 64, faults |-> FALSE, fail |-> "none",
     good_href |-> Absent, within |-> TRUE]

\* html_create_html_data: charset is the one of the Content-Type header,
\* "NULL" when it names none.
html_create_html_data(s, scripting, charset, ok1, ok2) ==
    LET s0 == [s EXCEPT
                  !.op = "create", !.active = 1,
                  !.enable_scripting = scripting, !.encoding = charset,
                  !.base_url = content_get_url, !.base_target = Absent,
                  !.refresh = FALSE, !.title = 0]
        p1 == dom_hubbub_parser_create(s0, s0.encoding, ok1)
        p2 == IF p1.parser # "live" /\ p1.encoding # "NULL"
              THEN dom_hubbub_parser_create(
                       [p1 EXCEPT !.encoding = "NULL"], "NULL", ok2)
              ELSE p1
    IN  Return([p2 EXCEPT !.penc0 = p2.penc], p2.parser = "live")

Init ==
    \E scripting \in BOOLEAN, enc \in {"NULL", "UTF-8"} :
        c = html_create_html_data(Blank, scripting, enc, TRUE, TRUE)

Begin(op) == [c EXCEPT !.trace = << >>, !.op = op]

\* html_process_data as the conversion sees it: a chunk goes through the
\* parser, which reports the nodes it inserts to the mutation observer (the
\* bytes themselves are followed in EncSpec).
ProcessData ==
    /\ c.status = "LOADING" /\ ~c.dataDone
    /\ \E eff \in ParserEffects :
          LET s  == Begin("html_process_data")
              s1 == IF s.enable_scripting /\ s.jsthread = "NULL"
                    THEN [s EXCEPT !.jsthread = "open"] ELSE s
          IN  c' = Mutation(s1, eff)

DataComplete ==
    /\ c.status = "LOADING" /\ ~c.dataDone
    /\ \E in \in Inputs : c' = content_convert(Begin("html_convert"), in)

FetchDone ==
    /\ c.fetching > 0
    /\ \E in \in Inputs :
          c' = html_convert_css_callback(Begin("fetch_callback"), in)

StylesProcessed ==
    /\ AnyModifiedFrom(c.stylesheets, 1)
    /\ \E in \in Inputs :
          c' = html_css_process_modified_styles(Begin("styles_processed"), in)

BoxFetchObject ==
    /\ c.scheduled
    /\ c.objects < MaxObjects
    /\ c' = html_fetch_object(Begin("html_fetch_object"))

\* the scheduled construction ends: it is no longer scheduled and calls the
\* completion callback it was given
convert_xml_to_box(s) == [s EXCEPT !.scheduled = FALSE]

BoxDone ==
    /\ c.scheduled
    /\ \E success \in BOOLEAN, fail \in {"none", "doc", "imagemap"} :
          c' = html_box_convert_done(
                   convert_xml_to_box(Begin("html_box_convert_done")),
                   success, fail)

ObjectDone ==
    /\ c.objects > 0
    /\ c' = html_object_callback(Begin("html_object_callback"))

Stop ==
    /\ c.status # "ERROR"
    /\ \E k \in 0..c.objects : c' = html_stop(Begin("html_stop"), k)

Next ==
    \/ ProcessData
    \/ DataComplete
    \/ FetchDone
    \/ StylesProcessed
    \/ BoxFetchObject
    \/ BoxDone
    \/ ObjectDone
    \/ Stop

Spec == Init /\ [][Next]_vars

\* The runs checked under fairness: the parser's last effects, the pending
\* scripts and the load handler start no fetch, and the root element is
\* html or svg; every failure point stays.
LiveInputs ==
    {in \in Inputs :
        /\ in.fin = "none" /\ in.exec = "none" /\ in.load = "none"
        /\ in.root \in {<<"h", "t", "m", "l">>, <<"s", "v", "g">>}}

LiveDataComplete ==
    /\ c.status = "LOADING" /\ ~c.dataDone
    /\ \E in \in LiveInputs : c' = content_convert(Begin("html_convert"), in)

LiveFetchDone ==
    /\ c.fetching > 0
    /\ \E in \in LiveInputs :
          c' = html_convert_css_callback(Begin("fetch_callback"), in)

LiveStylesProcessed ==
    /\ AnyModifiedFrom(c.stylesheets, 1)
    /\ \E in \in LiveInputs :
          c' = html_css_process_modified_styles(Begin("styles_processed"), in)

LiveNext ==
    \/ ProcessData
    \/ LiveDataComplete
    \/ LiveFetchDone
    \/ LiveStylesProcessed
    \/ BoxFetchObject
    \/ BoxDone
    \/ ObjectDone
    \/ Stop

\* Every started fetch eventually reports, modified stylesheets are eventually
\* processed and box construction eventually calls back.
LiveSpec ==
    /\ Init /\ [][LiveNext]_vars
    /\ WF_vars(LiveFetchDone)
    /\ WF_vars(LiveStylesProcessed)
    /\ WF_vars(BoxDone)
    /\ WF_vars(ObjectDone)

(* --------------------- the machine with html_destroy ------------------ *)

\* The content layer destroys the content at any moment, once, and calls no
\* handler of a destroyed content; a construction that is still scheduled
\* calls back whether the content is there or not.
Destroyed == c.op = "html_destroy"

Destroy ==
    /\ ~Destroyed
    /\ c' = html_destroy(Begin("html_destroy"))

DestroyNext ==
    \/ ~Destroyed /\ ProcessData
    \/ ~Destroyed /\ DataComplete
    \/ ~Destroyed /\ FetchDone
    \/ ~Destroyed /\ StylesProcessed
    \/ ~Destroyed /\ BoxFetchObject
    \/ BoxDone
    \/ ~Destroyed /\ ObjectDone
    \/ ~Destroyed /\ Stop
    \/ Destroy

DestroySpec == Init /\ [][DestroyNext]_vars

(* ------------- the machine without failures and without stop ---------- *)

\* Runs in which nothing fails (the root element is html), nobody stops the
\* content and the load handler starts no fetch: what is left open is which
\* fetches the document and its pending scripts start, and the order of the
\* completions.
OrderInputs ==
    {in \in Inputs :
        /\ in.fail \in {"none", "paused"} /\ in.load = "none"
        /\ dom_string_caseless_lwc_isequal(in.root, corestring_lwc_html)}

OrderDataComplete ==
    /\ c.status = "LOADING" /\ ~c.dataDone
    /\ \E in \in OrderInputs : c' = content_convert(Begin("html_convert"), in)

OrderFetchDone ==
    /\ c.fetching > 0
    /\ \E in \in OrderInputs :
          c' = html_convert_css_callback(Begin("fetch_callback"), in)

OrderStylesProcessed ==
    /\ AnyModifiedFrom(c.stylesheets, 1)
    /\ \E in \in OrderInputs :
          c' = html_css_process_modified_styles(Begin("styles_processed"), in)

OrderBoxDone ==
    /\ c.scheduled
    /\ c' = html_box_convert_done(
                convert_xml_to_box(Begin("html_box_convert_done")),
                TRUE, "none")

OrderNext ==
    \/ ProcessData
    \/ OrderDataComplete
    \/ OrderFetchDone
    \/ OrderStylesProcessed
    \/ BoxFetchObject
    \/ OrderBoxDone
    \/ ObjectDone

OrderSpec == Init /\ [][OrderNext]_vars

(* ------------------ the parser adapter, byte by byte ------------------ *)

EncCreate ==
    /\ c.op = "none"
    /\ \E scripting \in BOOLEAN, charset \in {"NULL", "UTF-8", "KOI8-R"},
          ok1 \in BOOLEAN, ok2 \in BOOLEAN :
          c' = html_create_html_data(c, scripting, charset, ok1, ok2)

EncProcessData ==
    /\ c.op # "none" /\ c.ret /\ c.status = "LOADING"
    /\ Len(c.source) < MaxBytes
    /\ \E data \in Chunks(MaxBytes - Len(c.source)), in \in EncInputs :
          c' = content_process_data(Begin("html_process_data"), data, in)

EncNext ==
    \/ EncCreate
    \/ EncProcessData

\* The content is created and fed its source in chunks, each byte as it is;
\* the conversion is left out.
EncSpec == (c = Blank) /\ [][EncNext]_vars

(* --------------------- the mutation observer alone -------------------- *)

\* The elements a document of the model is made of.
Nodes == ({[tag |-> "base", id |-> 0, x |-> href, y |-> Absent, pins |-> FALSE] :
          href \in {Absent, <<"h", "t", "t", "p", ":", "/", "/", "x", "/", "a", "/">>,
          <<"h", "t", "t", "p", ":", "/", "/", "b", "/">>}}
          \cup
          {[tag |-> "base", id |-> 0, x |-> Absent, y |-> target,
          pins |-> FALSE] :
          target \in {<< >>, <<"_", "B", "L", "A", "N", "K">>,
          <<"_", "b", "o", "g", "u", "s">>,
          <<"m", "a", "i", "n">>}}
          \cup
          {[tag |-> "base", id |-> 0,
          x |-> <<"h", "t", "t", "p", ":", "/", "/", "b", "/">>,
          y |-> <<"m", "a", "i", "n">>, pins |-> FALSE]}) \cup ({[tag |-> "meta", id |-> 0, x |-> <<"R", "e", "f", "r", "e", "s", "h">>, y |-> content,
                                                                pins |-> FALSE] :
                                                                content \in {Absent, <<"5">>, <<"0", ";", " ", "u", "r", "l", "=", "f", "o", "o", ".", "h", "t", "m", "l">>,
                                                                <<"3", ";", "U", "R", "L", "=", "'", "h", "t", "t", "p", ":", "/", "/", "b", "/", "'">>, <<"s", "o", "o", "n">>}}
                                                                \cup
                                                                {[tag |-> "meta", id |-> 0, x |-> equiv, y |-> <<"5">>, pins |-> FALSE] :
                                                                equiv \in {Absent, <<"e", "x", "p", "i", "r", "e", "s">>}}) \cup ({[tag |-> "title", id |-> i, x |-> Absent, y |-> Absent,
                                                                                                                                  pins |-> FALSE] : i \in 1..2}
                                                                                                                                  \cup
                                                                                                                                  {[tag |-> "script", id |-> 1, x |-> Absent, y |-> Absent,
                                                                                                                                  pins |-> p] : p \in BOOLEAN}
                                                                                                                                  \cup
                                                                                                                                  {[tag |-> "img", id |-> 0, x |-> src, y |-> Absent, pins |-> FALSE] :
                                                                                                                                  src \in {Absent, <<"i", ".", "p", "n", "g">>}}
                                                                                                                                  \cup
                                                                                                                                  {[tag |-> t, id |-> 0, x |-> Absent, y |-> Absent, pins |-> FALSE] :
                                                                                                                                  t \in {"link", "style", "p"}})

\* the inputs that make a difference to the handler of the node
InputsFor(node) ==
    {in \in ElemInputs :
        /\ node.tag # "script" => in.within
        /\ node.tag # "img" => in.images
        /\ node.tag # "title" => in.text = "A"
        /\ node.tag \in {"link", "style", "p"} =>
               in.fail \in {"none", "handler"}}

\* what the notifications so far have shown: the href of the last base
\* element that carried one, the last such href that reached nsurl_create
\* and was accepted, the first target that is a non-empty valid name, and
\* whether the script without the parser-inserted flag showed up outside the
\* document
Observe(s, node, in, inserted) ==
    [s EXCEPT
        !.node = node, !.nnodes = @ + 1,
        !.faults = @ \/ in.fail # "none", !.fail = in.fail,
        !.within = in.within,
        !.good_href = IF /\ inserted /\ node.tag = "base" /\ node.x # Absent
                         /\ in.fail \notin {"dom", "url"}
                      THEN node.x ELSE @,
        !.last_href = IF inserted /\ node.tag = "base" /\ node.x # Absent
                      THEN node.x ELSE @,
        !.first_target = IF /\ inserted /\ @ = Absent /\ node.tag = "base"
                            /\ node.y # Absent /\ node.y # << >>
                            /\ ValidTarget(node.y)
                         THEN node.y ELSE @,
        !.script = IF /\ node.tag = "script" /\ ~node.pins /\ ~in.within
                      /\ @ = "unseen"
                   THEN "detached" ELSE @]

ElemInit ==
    \E scripting \in BOOLEAN :
        c = html_create_html_data(Blank, scripting, "NULL", TRUE, TRUE)

NodeInserted ==
    /\ c.nnodes < MaxNodes
    /\ \E node \in Nodes : \E in \in InputsFor(node) :
          c' = dom_default_action_DOMNodeInserted_cb(
                   Observe(Begin("DOMNodeInserted"), node, in, TRUE),
                   node, in)

\* the callback looks at script elements only: one element of another kind
\* stands for the rest
NodeInsertedIntoDocument ==
    /\ c.nnodes < MaxNodes
    /\ \E node \in {n \in Nodes : n.tag \in {"script", "p"}} :
       \E in \in InputsFor(node) :
          c' = dom_default_action_DOMNodeInsertedIntoDocument_cb(
                   Observe(Begin("DOMNodeInsertedIntoDocument"), node, in,
                           FALSE), node, in)

\* the callback looks at the title node and at style elements (and at form
\* controls, whose boxes do not exist before conversion)
SubtreeModified ==
    /\ c.nnodes < MaxNodes
    /\ \E node \in {n \in Nodes : n.tag \in {"title", "style", "p"}} :
       \E in \in InputsFor(node) :
          c' = dom_default_action_DOMSubtreeModified_cb(
                   Observe(Begin("DOMSubtreeModified"), node, in, FALSE),
                   node, in)

ElemNext == NodeInserted \/ NodeInsertedIntoDocument \/ SubtreeModified

ElemSpec == ElemInit /\ [][ElemNext]_vars

(* ----------------------- the meta refresh parser ---------------------- *)

\* The content values the parser is given: a delay part, a separator and a
\* URL clause, each from a list made to reach every branch of the parser.
Contents ==
    {d \o p \o u : d \in ({<< >>, <<" ">>, <<"s", "o", "o", "n">>, <<"-", "5">>, <<"+", "5">>, <<"0">>, <<"5">>, <<" ", "\t", "7">>,
                          <<"1", "2">>, <<"0", "0", "7">>, <<"3", ".", "5">>, <<"5", ".">>, <<".", "5">>, <<"9", "9", "9", "9", "9", "9", "9", "9", "9">>,
                          <<"2", "1", "4", "7", "4", "8", "3", "6", "4", "7">>, <<"2", "1", "4", "7", "4", "8", "3", "6", "4", "8">>, <<"4", "2", "9", "4", "9", "6", "7", "2", "9", "6">>, <<"4", "2", "9", "4", "9", "6", "7", "2", "9", "8">>,
                          <<"9", "2", "2", "3", "3", "7", "2", "0", "3", "6", "8", "5", "4", "7", "7", "5", "8", "0", "7">>, <<"9", "2", "2", "3", "3", "7", "2", "0", "3", "6", "8", "5", "4", "7", "7", "5", "8", "0", "8">>,
                          <<"9", "9", "9", "9", "9", "9", "9", "9", "9", "9", "9", "9", "9", "9", "9", "9", "9", "9", "9", "9">>}), p \in ({<< >>, <<";">>, <<";", " ">>, <<" ", ";", " ">>, <<" ", " ">>,
                                                                                                                                           <<";", ";">>, <<",">>}), u \in ({<< >>, <<"u", "r", "l", "=", "f", "o", "o", ".", "h", "t", "m", "l">>, <<"U", "R", "L", " ", "=", " ", "'", "a", " ", "b", "'">>, <<"u", "R", "l", "=", "\"", "c", "'", "d", "\"", " ", "e">>, <<"u", "r">>,
                                                                                                                                                                           <<"u", "r", "x", "=", "f", "o", "o">>, <<"l", "i", "n", "k", "=", "f", "o", "o">>, <<"u", "r", "l">>, <<"u", "r", "l", " ", "f", "o", "o">>, <<"u", "r", "l", ":", "f", "o", "o">>,
                                                                                                                                                                           <<"u", "r", "l", "=">>, <<"u", "r", "l", "=", "'">>, <<"=", "f", "o", "o">>, <<"u", "r", "l", "=", "h", "t", "t", "p", ":", "/", "/", "b", "/">>, <<"u", "r", "l", "=", " ", "f", "o", "o", " ", "b", "a", "r">>,
                                                                                                                                                                           <<"x">>})}

\* A created content, the width of long on the platform, the base URL (the
\* content's own, or the one an earlier base element left) and the meta
\* element the parser is about to insert.
MetaInit ==
    \E content \in Contents, bits \in {32, 64},
       base \in {content_get_url, <<"h", "t", "t", "p", ":", "/", "/", "b", "/">>} :
        c = [html_create_html_data(Blank, FALSE, "NULL", TRUE, TRUE) EXCEPT
                !.long_bits = bits, !.base_url = base,
                !.node = [tag |-> "meta", id |-> 0, x |-> <<"R", "E", "F", "R", "E", "S", "H">>,
                          y |-> content, pins |-> FALSE]]

MetaInserted ==
    /\ c.nnodes = 0
    /\ \E in \in {i \in InputsFor(c.node) : i.fail # "handler"} :
          c' = dom_default_action_DOMNodeInserted_cb(
                   Observe(Begin("DOMNodeInserted"), c.node, in, TRUE),
                   c.node, in)

MetaSpec == MetaInit /\ [][MetaInserted]_vars

(* ------------------------------ html_exec ----------------------------- *)

\* The DOM steps of html_exec in their order; "none" is a call in which
\* every step succeeds.
ExecSteps ==
    <<"dom_string_create", "get_body", "create_text_node", "create_element",
      "append_text", "append_script", "get_parent_node", "remove_child">>

\* what the injected code does when the insertion of its element runs it:
\* nothing, throw, take its own element out of the document, or move it
\* under another element of the document
ExecInputs ==
    [fail : {"none"} \cup {ExecSteps[i] : i \in 1..Len(ExecSteps)},
     effect : {"noop", "throws", "detaches", "moves"},
     src : {<< >>, <<"f", "(", ")">>,
            <<"t", "h", "r", "o", "w", " ", "1">>}]

\* The content as html_exec sees it: whether it has a document, the parent
\* of the transient script element ("none", "body" or "other"), the script
\* elements earlier calls left in the document, and the call just made.
ExecBlank ==
    [document |-> FALSE, parent |-> "none", left |-> 0, op |-> "none",
     result |-> FALSE, fail |-> "none", effect |-> "noop", src |-> << >>,
     nexec |-> 0, ran |-> FALSE]

\* the step of that name and every step before it has succeeded
StepOk(in, step) ==
    \A i \in 1..Len(ExecSteps) :
        (\E j \in i..Len(ExecSteps) : ExecSteps[j] = step) =>
            in.fail # ExecSteps[i]

\* dom_node_append_child(body_node, script_node): the element is in the
\* document, the mutation observer hands it to script processing, and the
\* code does what it does
AppendScript(s, in) ==
    [s EXCEPT !.ran = TRUE,
              !.parent = CASE in.effect = "detaches" -> "none"
                           [] in.effect = "moves" -> "other"
                           [] OTHER -> "body"]

\* lines 2767-2779: the script is removed from wherever it ended up parented
Unwind(s, in) ==
    IF in.fail = "get_parent_node" \/ s.parent = "none" THEN s
    ELSE IF in.fail = "remove_child" THEN s
    ELSE [s EXCEPT !.parent = "none"]

\* fault variant: the result is that of the detach
html_exec_result_of_detach(s, in) ==
    LET s0 == [s EXCEPT !.op = "html_exec", !.result = FALSE,
                        !.parent = "none", !.ran = FALSE,
                        !.fail = in.fail, !.effect = in.effect,
                        !.src = in.src, !.nexec = @ + 1]
        s1 == Unwind(AppendScript(s0, in), in)
    IN  IF ~s0.document THEN s0
        ELSE IF ~StepOk(in, "append_script") THEN s0
        ELSE [s1 EXCEPT !.result = s1.parent = "none",
                        !.left = IF s1.parent # "none" THEN @ + 1 ELSE @]

html_exec(s, in) ==
    LET s0 == [s EXCEPT !.op = "html_exec", !.result = FALSE,
                        !.parent = "none", !.ran = FALSE,
                        !.fail = in.fail, !.effect = in.effect,
                        !.src = in.src, !.nexec = @ + 1]
        s1 == Unwind(AppendScript(s0, in), in)
    IN  IF ~s0.document THEN s0
        ELSE IF ~StepOk(in, "append_script") THEN s0
        ELSE [s1 EXCEPT !.result = TRUE,
                        !.left = IF s1.parent # "none" THEN @ + 1 ELSE @]

\* content_exec hands the call to the handler of the content
content_exec(s, in) == html_exec(s, in)

Exec ==
    /\ c.nexec < MaxExecs
    /\ \E in \in ExecInputs : c' = content_exec(c, in)

ExecSpec ==
    /\ \E document \in BOOLEAN : c = [ExecBlank EXCEPT !.document = document]
    /\ [][Exec]_vars

(* ---------------------------- keyboard events ------------------------- *)

\* The keys given to fire_dom_keyboard_event: control keys with and without
\* a name of their own, and characters of one, two and three UTF-8 bytes.
KeyInputs ==
    [key : {8, 27, 28, 29, 30, 31, 32, 65, 126, 127, 130, 131, 134, 135,
            159, 160, 233, 8364},
     fail : {"none", "dom_string_create", "dom_keyboard_event_create",
             "dom_keyboard_event_init", "dispatch"},
     result : BOOLEAN, type : {"keydown", "keypress"}]

NoKey == [kind |-> "NULL", name |-> "", bytes |-> << >>]

\* the named key values of the switch, lines 136-167
KeyName(key) ==
    CASE key = 27 -> "Escape"
      [] key = 28 -> "ArrowLeft"
      [] key = 29 -> "ArrowRight"
      [] key = 30 -> "ArrowUp"
      [] key = 31 -> "ArrowDown"
      [] key = 134 -> "PageUp"
      [] key = 135 -> "PageDown"
      [] key = 130 -> "Home"
      [] key = 131 -> "End"
      [] OTHER -> ""

\* utf8_from_ucs4 for the code points below 0x10000
utf8_from_ucs4(key) ==
    IF key < 128 THEN <<key>>
    ELSE IF key < 2048 THEN <<192 + (key \div 64), 128 + (key % 64)>>
    ELSE <<224 + (key \div 4096), 128 + ((key \div 64) % 64),
           128 + (key % 64)>>

is_special(key) == key <= 31 \/ (127 <= key /\ key <= 159)

\* the key string of lines 135-180
dom_key(key) ==
    IF is_special(key)
    THEN IF KeyName(key) = "" THEN NoKey
         ELSE [kind |-> "name", name |-> KeyName(key), bytes |-> << >>]
    ELSE [kind |-> "utf8", name |-> "", bytes |-> utf8_from_ucs4(key)]

\* The document as the keyboard events reach it: the event dispatched last,
\* how many were dispatched, and the call just made with the failure that
\* happened in it.
KeyBlank ==
    [op |-> "none", key |-> 0, type |-> "none", failed |-> "none",
     ret |-> FALSE, fired |-> FALSE, event |-> NoKey, dispatched |-> 0,
     prevented |-> FALSE, nkeys |-> 0]

\* fire_dom_event: the event is dispatched unless the dispatch fails; the
\* result is whether the default action was left to happen
fire_dom_event(s, in) ==
    IF in.fail = "dispatch"
    THEN [s EXCEPT !.failed = "dispatch", !.ret = FALSE]
    ELSE [s EXCEPT !.fired = TRUE, !.dispatched = @ + 1,
                   !.event = dom_key(in.key),
                   !.prevented = ~in.result, !.ret = in.result]

\* a dom_exception other than DOM_NO_ERR returned as a bool is true
fire_dom_keyboard_event(s, in) ==
    LET s0 == [s EXCEPT !.op = "fire_dom_keyboard_event", !.key = in.key,
                        !.type = in.type, !.failed = "none",
                        !.fired = FALSE, !.nkeys = @ + 1]
    IN  IF ~is_special(in.key) /\ in.fail = "dom_string_create"
        THEN [s0 EXCEPT !.failed = in.fail, !.ret = TRUE]
        ELSE IF in.fail \in {"dom_keyboard_event_create",
                             "dom_keyboard_event_init"}
        THEN [s0 EXCEPT !.failed = in.fail, !.ret = FALSE]
        ELSE fire_dom_event(s0, in)

KeyPressed ==
    /\ c.nkeys < MaxKeys
    /\ \E in \in KeyInputs : c' = fire_dom_keyboard_event(c, in)

KeySpec == (c = KeyBlank) /\ [][KeyPressed]_vars

(* ------------------- the Plan 9 toolbar button handlers --------------- *)

\* the bitwise and of two naturals
RECURSIVE BitAnd(_, _)
BitAnd(a, b) ==
    IF a = 0 \/ b = 0 THEN 0
    ELSE (a % 2) * (b % 2) + 2 * BitAnd(a \div 2, b \div 2)

\* the three mouse buttons of a Mouse event, as the bits 1, 2 and 4
Buttons == 0..7

\* The current browser window as the toolbar sees it: the history with the
\* position in it, whether a page is loading, and the handler that ran last
\* with the buttons of its event and the browser call it made.
ToolbarBlank ==
    [op |-> "none", buttons |-> 0, acted |-> "none", pos |-> 1, len |-> 1,
     loading |-> FALSE, reloads |-> 0]

Handle(s, op, m) == [s EXCEPT !.op = op, !.buttons = m, !.acted = "none"]

\* `m.buttons&1 == 0`: == binds tighter than &, so the test is
\* m.buttons & (1 == 0), the comparison being the int 1 or 0
NotButton1(m) == BitAnd(m, IF 1 = 0 THEN 1 ELSE 0) # 0

browser_window_history_back(s) ==
    [s EXCEPT !.pos = @ - 1, !.loading = TRUE, !.acted = "history_back"]

browser_window_history_forward(s) ==
    [s EXCEPT !.pos = @ + 1, !.loading = TRUE, !.acted = "history_forward"]

browser_window_stop(s) == [s EXCEPT !.loading = FALSE, !.acted = "stop"]

browser_window_reload(s) ==
    [s EXCEPT !.loading = TRUE, !.acted = "reload",
              !.reloads = IF @ < 2 THEN @ + 1 ELSE @]

back_button_mouse_event(s, m) ==
    LET s0 == Handle(s, "back_button_mouse_event", m)
    IN  IF NotButton1(m) THEN s0
        ELSE IF s0.pos > 1 \* browser_window_back_available
        THEN browser_window_history_back(s0)
        ELSE s0

fwd_button_mouse_event(s, m) ==
    LET s0 == Handle(s, "fwd_button_mouse_event", m)
    IN  IF NotButton1(m) THEN s0
        ELSE IF s0.pos < s0.len \* browser_window_forward_available
        THEN browser_window_history_forward(s0)
        ELSE s0

stop_button_mouse_event(s, m) ==
    LET s0 == Handle(s, "stop_button_mouse_event", m)
    IN  IF NotButton1(m) THEN s0 ELSE browser_window_stop(s0)

reload_button_mouse_event(s, m) ==
    LET s0 == Handle(s, "reload_button_mouse_event", m)
    IN  IF NotButton1(m) THEN s0 ELSE browser_window_reload(s0)

\* a URL that nsurl_create accepts is entered: browser_window_navigate adds
\* the page after the current one and drops the pages that were ahead
url_entry_activated(s) ==
    [Handle(s, "url_entry_activated", 0) EXCEPT
        !.pos = @ + 1, !.len = s.pos + 1, !.loading = TRUE,
        !.acted = "navigate"]

BackButton == \E m \in Buttons : c' = back_button_mouse_event(c, m)

FwdButton == \E m \in Buttons : c' = fwd_button_mouse_event(c, m)

StopButton == \E m \in Buttons : c' = stop_button_mouse_event(c, m)

ReloadButton == \E m \in Buttons : c' = reload_button_mouse_event(c, m)

UrlEntered ==
    /\ c.pos < MaxHistory
    /\ c' = url_entry_activated(c)

ToolbarNext ==
    \/ BackButton
    \/ FwdButton
    \/ StopButton
    \/ ReloadButton
    \/ UrlEntered

ToolbarSpec == (c = ToolbarBlank) /\ [][ToolbarNext]_vars

(* ------------------------------ properties ---------------------------- *)

Events == {c.trace[i] : i \in DOMAIN c.trace}

Has(kind, arg) == \E e \in Events : e.ev = kind /\ e.arg = arg

ConversionOps == {"html_convert", "fetch_callback", "styles_processed"}

\* C1: box-tree construction (dom_to_box) is started only in a state where the
\* active-fetch counter is zero and no stylesheet descriptor is modified.
C1_BoxStartsOnlyWhenGuardHolds ==
    c.nbox > 0 => (c.boxActive = 0 /\ ~c.boxModified)

\* C2: html_can_begin_conversion is true exactly when the counter is 0 and no
\* stylesheet is modified, at every evaluation a handler makes of it and in
\* every reachable state.
C2_GuardIsCounterZeroAndNoneModified ==
    /\ \A e \in Events :
          e.ev = "guard" => (e.r <=> (e.a = 0 /\ e.m = 0))
    /\ html_can_begin_conversion(c) <=>
          (c.active = 0 /\ \A i \in 1..Len(c.stylesheets) : ~c.stylesheets[i])

\* the guard turns true when the modified flags are cleared after data
\* completion and a fetch completion had left it false
C2_Witness ==
    /\ c.op = "styles_processed" /\ c.dataDone /\ c.started >= 1
    /\ \E e \in Events : e.ev = "guard" /\ e.arg = "callback" /\ e.r

\* C3: box-tree construction is invoked at most once for one content.
C3_BoxConstructionAtMostOnce == c.nbox <= 1

\* html_finish_conversion was entered again after construction had started
C3_Witness == c.nbox = 1 /\ Has("style_change_ignored", "")

\* C4: once the status is DONE or ERROR, no later operation sets a status
\* again or broadcasts a further error.
C4_TerminalStatusEnteredOnce ==
    [][c.status \in Terminal =>
        /\ c'.status = c.status
        /\ \A i \in DOMAIN c'.trace : c'.trace[i].ev \notin {"set", "error"}]_vars

\* C5: under fairness, every content whose data is complete eventually
\* reaches DONE or ERROR.
C5_DataCompleteLeadsToTerminal ==
    c.dataDone ~> (c.status \in Terminal)

\* C6: on every fatal failure path the objects are released before the error
\* is broadcast and before the content is marked ERROR.
C6_ObjectsReleasedBeforeError ==
    \A i \in DOMAIN c.trace :
        (c.trace[i].ev = "error" \/ c.trace[i] = Ev("set", "ERROR")) =>
            \E j \in 1..(i - 1) : c.trace[j].ev = "free_objects"

\* C7: after html_stop was called in status LOADING, no box-tree construction
\* is started.
C7_NoBoxAfterStopWhileLoading == ~c.boxAfterStop

\* a conversion attempt ran after the stop and gave up
C7_Witness ==
    c.stopLoading /\ c.op \in ConversionOps /\ Has("error", "NSERROR_STOPPED")

\* C8 as claimed: html_stop in READY with object fetches pending ends in ERROR
\* once the objects have reported their abort.
C8_StopWhileReadyEndsInError ==
    (c.stopReady /\ c.objects = 0) => c.status = "ERROR"

\* C8 as amended: html_stop in READY with object fetches pending never leads
\* to ERROR or to a STOPPED broadcast; the content becomes DONE when the
\* counter reaches zero in html_stop or on an object's report.
C8_StopWhileReadyEndsInDone ==
    c.stopReady =>
        /\ c.status \in {"READY", "DONE"}
        /\ ~Has("error", "NSERROR_STOPPED")
        /\ (c.op \in {"html_stop", "html_object_callback"} /\ c.active = 0)
              => c.status = "DONE"

C8_Witness ==
    c.stopReady /\ c.op = "html_object_callback" /\ c.status = "DONE"

\* a conversion step ran: the completion callback of box construction, or
\* html_begin_conversion past its guard
StepRan ==
    \/ c.op = "html_box_convert_done"
    \/ \E e \in Events :
          e.ev = "guard" /\ e.arg = "html_begin_conversion" /\ e.r

\* C9 as claimed: once aborted, the next conversion step that runs broadcasts
\* NSERROR_STOPPED and puts the content in ERROR.
C9_AbortedStepBroadcastsStopped ==
    (c.aborted /\ StepRan) =>
        (c.status = "ERROR" /\ Has("error", "NSERROR_STOPPED"))

\* C9 as amended: the aborted flag is never cleared, an aborted content is
\* never READY or DONE, and the next conversion step that runs puts it in
\* ERROR, broadcasting NSERROR_STOPPED, or NSERROR_BOX_CONVERT when it is the
\* completion callback of a box construction that failed.
C9_AbortedStepEndsInError ==
    /\ [](c.aborted =>
            /\ c.status \in {"LOADING", "ERROR"}
            /\ StepRan =>
                  /\ c.status = "ERROR"
                  /\ \/ Has("error", "NSERROR_STOPPED")
                     \/ /\ c.op = "html_box_convert_done"
                        /\ Has("error", "NSERROR_BOX_CONVERT"))
    /\ [][c.aborted => c'.aborted]_vars

\* box construction failed on an aborted content
C9_Witness ==
    /\ c.aborted /\ c.op = "html_box_convert_done"
    /\ Has("error", "NSERROR_BOX_CONVERT") /\ c.status = "ERROR"

\* C10: the active-fetch counter never goes below zero: it always covers the
\* HTML fetch itself until html_convert, and every fetch still to report.
C10_CounterNeverNegative ==
    /\ c.active >= 0
    /\ c.active >= (IF c.dataDone THEN 0 ELSE 1) + c.fetching + c.objects

\* the last fetch completion after data completion brought the counter to 0
C10_Witness ==
    c.dataDone /\ c.op = "fetch_callback" /\ c.started >= 1 /\ c.active = 0

Recheck(result) ==
    \E e \in Events :
        e.ev = "guard" /\ e.arg = "html_begin_conversion" /\ e.r = result

\* C12: the guard is evaluated again after a successful finalization; when it
\* is false html_begin_conversion returns success with no error broadcast, no
\* status set and conversion_begun still false, and a later call in which the
\* guard holds (on a content not aborted) performs the conversion.
C12_RecheckAfterFinalization ==
    /\ [][Recheck(FALSE)' =>
             /\ Has("parser_completed", "OK")'
             /\ c'.ret /\ ~c'.conversion_begun /\ c'.status = c.status
             /\ \A i \in DOMAIN c'.trace :
                   c'.trace[i].ev \notin {"set", "error"}]_vars
    /\ []((Recheck(TRUE) /\ ~c.aborted) =>
             (c.conversion_begun /\ Has("script_exec", "")))

\* a callback performed the conversion that an earlier call had put off
C12_Witness ==
    /\ c.recheckFailed /\ Recheck(TRUE)
    /\ c.op \in {"fetch_callback", "styles_processed"}
    /\ c.conversion_begun /\ Has("dom_to_box", "")

\* the completion callback of box construction ran last, with this result
BoxCallback(result) ==
    c.op = "html_box_convert_done" /\ Has("box_result", result)

\* C13: when box construction completes with a failure, or on an aborted
\* content, the callback releases the objects, broadcasts
\* NSERROR_BOX_CONVERT (construction failed) or NSERROR_STOPPED (construction
\* succeeded, content aborted), and sets ERROR, in this order.
C13_BoxFailureOrAbortEndsInError ==
    /\ BoxCallback("failed") =>
          /\ c.trace = <<Ev("box_result", "failed"), Ev("free_objects", ""),
                         Ev("error", "NSERROR_BOX_CONVERT"), Ev("set", "ERROR")>>
          /\ c.status = "ERROR" /\ c.objects = 0
    /\ (BoxCallback("ok") /\ c.aborted) =>
          /\ c.trace = <<Ev("box_result", "ok"), Ev("free_objects", ""),
                         Ev("error", "NSERROR_STOPPED"), Ev("set", "ERROR")>>
          /\ c.status = "ERROR" /\ c.objects = 0

\* construction succeeded on a content stopped while it was LOADING
C13_Witness ==
    /\ BoxCallback("ok") /\ c.aborted /\ c.stopLoading
    /\ Has("error", "NSERROR_STOPPED")

Quiescent ==
    /\ c.dataDone /\ c.fetching = 0 /\ c.objects = 0
    /\ ~c.box_conversion_context /\ ~AnyModifiedFrom(c.stylesheets, 1)

C16_NoReentryAfterConversionBegun ==
    [][c.conversion_begun =>
          \A i \in DOMAIN c'.trace :
              c'.trace[i].ev \notin
                  {"script_exec", "forms", "parser_completed"}]_vars

\* C17: in every call that starts box construction the parser has been
\* finalized (in this call, before the guard, or in an earlier one), and the
\* call has, in this order, found the guard true, executed the pending
\* scripts, validated the root element, gathered the forms, and only then
\* started box construction.
C17_ConversionStepsInOrder ==
    Has("dom_to_box", "") =>
        /\ c.parse_completed
        /\ \E g \in DOMAIN c.trace :
              /\ c.trace[g].ev = "guard" /\ c.trace[g].r
              /\ c.trace[g].arg = "html_begin_conversion"
              /\ \A p \in DOMAIN c.trace :
                    c.trace[p].ev = "parser_completed" =>
                        (p < g /\ c.trace[p].arg = "OK")
              /\ \E x \in (g + 1)..Len(c.trace) :
                    /\ c.trace[x].ev = "script_exec"
                    /\ \E r \in (x + 1)..Len(c.trace) :
                          /\ c.trace[r] = Ev("root", "ok")
                          /\ \E f \in (r + 1)..Len(c.trace) :
                                /\ c.trace[f].ev = "forms"
                                /\ \E b \in (f + 1)..Len(c.trace) :
                                      c.trace[b].ev = "dom_to_box"

\* a fetch callback finalized the parser and went all the way to box
\* construction
C17_Witness ==
    /\ Has("dom_to_box", "") /\ Has("parser_completed", "OK")
    /\ c.op = "fetch_callback"

\* C18: when the document has no root element, or one whose name is not
\* "html" whatever the case of its letters, html_begin_conversion broadcasts
\* NSERROR_DOM and returns failure at the root check, and box construction
\* is never started for the content; a root named "html" in any case passes.
C18_BadRootNeverConverts ==
    /\ (c.root # RootUnseen
          /\ ~dom_string_caseless_lwc_isequal(c.root, corestring_lwc_html)) =>
             (c.nbox = 0 /\ ~c.box_conversion_context /\ ~Has("root", "ok"))
    /\ Has("root", "bad") =>
          /\ ~c.ret /\ Has("error", "NSERROR_DOM")
          /\ ~Has("forms", "") /\ ~Has("dom_to_box", "")
          /\ ~dom_string_caseless_lwc_isequal(c.root, corestring_lwc_html)

\* a fetch callback met a root element that is not html, and no box
\* construction was ever started
C18_Witness ==
    /\ Has("root", "bad") /\ c.root = <<"s", "v", "g">>
    /\ c.op = "fetch_callback" /\ c.nbox = 0

\* a root named in mixed case passed the check
C18_MixedCaseWitness ==
    c.root = <<"H", "T", "m", "L">> /\ Has("root", "ok") /\ c.nbox = 1

\* the events of the last handler that create a parser, in order
RECURSIVE Creations(_)
Creations(tr) ==
    IF tr = << >> THEN << >>
    ELSE IF Head(tr).ev = "parser_create"
    THEN <<Head(tr)>> \o Creations(Tail(tr))
    ELSE Creations(Tail(tr))

\* the encoding a detecting parser finds in the source
Detected(src) == Charset(src[FirstMeta(src, 1)])

\* C19: when a chunk makes the parser ask for an encoding change,
\* html_process_data takes the encoding the parser detected, destroys the
\* parser, creates a new one with that encoding (or the fallback) and feeds
\* it the whole source from its first byte; it returns success exactly when
\* that replay succeeds.
C19_EncodingChangeReplaysWholeSource ==
    Has("encoding_change", "") =>
        /\ c.trace[1] = Ev("encoding_change", "")
        /\ c.trace[2] = Ev("parser_destroy", "")
        /\ c.trace[3].ev = "parser_create"
        /\ c.trace[3].arg = Detected(c.source)
        /\ c.ret <=> Has("replay", "NSERROR_OK")
        /\ c.ret =>
              /\ c.parser = "live" /\ c.consumed = c.source
              /\ c.penc = c.encoding
              /\ c.penc \in {Detected(c.source), "Windows-1252"}
        /\ ~c.ret => (Has("error", "NSERROR_DOM") /\ c.status = "ERROR")

\* the declaration came in a later chunk than the first bytes of the source
C19_Witness ==
    /\ Has("replay", "NSERROR_OK") /\ c.ret /\ c.nchunks >= 2
    /\ ~IsMeta(c.source[1]) /\ c.consumed = c.source

C20_CreateWitness ==
    /\ c.op = "create" /\ Len(Creations(c.trace)) = 2
    /\ c.penc = "NULL" /\ c.ret

\* the content as html_create_html_data left it, before any byte
Created0 ==
    [c EXCEPT !.penc = c.penc0, !.encoding = c.penc0,
              !.pdet = DefaultCharset, !.consumed = << >>,
              !.source = << >>, !.nchunks = 0, !.trace = << >>,
              !.parser = "live"]

\* the same bytes handed over as one chunk, the creation of the parser for
\* the detected encoding being refused in it if it was refused here
OneChunk ==
    content_process_data(
        Created0, c.source,
        [fail |-> "none", create1 |-> c.penc # "Windows-1252",
         create2 |-> TRUE])

\* C21: whatever the chunks the source came in, and whether or not one of
\* them made the parser ask for an encoding change, the parser at hand has
\* consumed the bytes, with the encoding, that it would have with the whole
\* source handed over as a single chunk.
C21_ChunkBoundaryInvariant ==
    (c.op = "html_process_data" /\ c.ret) =>
        /\ OneChunk.ret
        /\ c.consumed = OneChunk.consumed /\ c.consumed = c.source
        /\ c.penc = OneChunk.penc /\ c.encoding = OneChunk.encoding
        /\ c.parser = OneChunk.parser

\* the source came in three chunks and the declaration in the last
C21_Witness ==
    /\ c.op = "html_process_data" /\ c.ret /\ c.nchunks = MaxBytes
    /\ c.penc0 = "NULL" /\ IsMeta(c.source[Len(c.source)])
    /\ ~IsMeta(c.source[1]) /\ c.penc \in {"UTF-8", "KOI8-R"}

\* C22: html_stop, in status LOADING as in READY, tells every fetch still in
\* flight to cancel.
C22_StopCancelsFetchesInFlight ==
    [][(c'.op = "html_stop" /\ c.status \in {"LOADING", "READY"}
          /\ c.fetching + c.objects > 0) =>
             Has("abort_objects", "")']_vars

\* C23 as stated: the base URL is the href of the last base element that
\* carried one, the URL of the content itself before any did.
C23_BaseUrlIsLastHref ==
    c.base_url = IF c.last_href = Absent THEN content_get_url
                 ELSE c.last_href

\* C23, amended: the base URL is the href of the last base element whose href
\* was read and accepted by nsurl_create; an href that is refused leaves the
\* base URL as it was.
C23_BaseUrlIsLastAcceptedHref ==
    c.base_url = IF c.good_href = Absent THEN content_get_url
                 ELSE c.good_href

\* two base elements with an href, the first accepted and the second refused
C23_Witness ==
    /\ c.op = "DOMNodeInserted" /\ c.node.tag = "base" /\ c.nnodes = 2
    /\ c.fail = "url" /\ c.node.x # Absent
    /\ c.good_href \notin {Absent, c.node.x}
    /\ c.base_url = c.good_href

\* two base elements with an href, both accepted: the second one wins
C23_OverwriteWitness ==
    /\ c.op = "DOMNodeInserted" /\ c.node.tag = "base" /\ c.nnodes = 2
    /\ ~c.faults /\ c.node.x = <<"h", "t", "t", "p", ":", "/", "/", "b", "/">>
    /\ c.base_url = c.node.x

\* C24: when no handler has failed, the base target is the target of the
\* first base element whose target is a non-empty valid name.
C24_BaseTargetIsFirstValidTarget ==
    ~c.faults => c.base_target = c.first_target

\* C25: over any sequence of inserted meta elements the refresh target is set
\* and CONTENT_MSG_REFRESH is broadcast at most once.
C25_RefreshBroadcastAtMostOnce == c.nrefresh <= 1

TitleExtracted == \E e \in Events : e.ev = "set_title" /\ e.arg = c.title_text

\* C26: the title node is the first title element inserted and nothing
\* replaces it; the title text is extracted in a subtree-modified
\* notification whose target is the remembered title node, in no other step,
\* and in every such notification whose handler does not fail.
C26_FirstTitleRemembered ==
    [][/\ c'.title = IF /\ c'.op = "DOMNodeInserted" /\ c'.node.tag = "title"
                        /\ c.title = 0
                     THEN c'.node.id ELSE c.title
       /\ (c'.title_text # c.title_text \/ TitleExtracted') =>
              /\ c'.op = "DOMSubtreeModified"
              /\ c'.node.tag = "title" /\ c'.node.id = c.title
       /\ (/\ c'.op = "DOMSubtreeModified" /\ c'.node.tag = "title"
           /\ c'.node.id = c.title /\ c'.fail = "none") =>
              TitleExtracted']_vars

\* the remembered title node is modified and its text extracted
C26_Witness ==
    /\ c.op = "DOMSubtreeModified" /\ c.node.tag = "title"
    /\ c.node.id = c.title /\ TitleExtracted /\ c.title_text = "B"

\* a second title element is inserted and the first stays remembered
C26_SecondTitleWitness ==
    /\ c.op = "DOMNodeInserted" /\ c.node.tag = "title"
    /\ c.title # 0 /\ c.node.id # c.title

ScriptProcessed == Has("process_script", "")

ScriptNotified ==
    /\ c.op \in {"DOMNodeInserted", "DOMNodeInsertedIntoDocument"}
    /\ c.node.tag = "script"

\* C27: a notification leads to script processing only if it is about a
\* script element, scripting is enabled, the element is not flagged
\* parser-inserted and the document contains it; and every notification of
\* either kind about such an element, the later inserted-into-document one
\* included, does lead to it unless the flags cannot be read.
C27_ScriptProcessedOnlyWhenAttached ==
    [][/\ ScriptProcessed' =>
              /\ ScriptNotified' /\ c.enable_scripting
              /\ ~c'.node.pins /\ c'.within
       /\ (/\ ScriptNotified' /\ c.enable_scripting /\ ~c'.node.pins
           /\ c'.within /\ c'.fail # "dom") => ScriptProcessed']_vars

\* a script that showed up outside the document is processed when the
\* inserted-into-document notification arrives
C27_Witness ==
    /\ c.op = "DOMNodeInsertedIntoDocument" /\ c.node.tag = "script"
    /\ ScriptProcessed /\ c.script = "processed late"

\* C28: whatever fails inside the handler of an inserted element, the
\* notification leaves the status, the aborted flag, parse_completed and
\* conversion_begun as they were and broadcasts no error.
C28_HandlerFailuresAreSwallowed ==
    [][c'.op = "DOMNodeInserted" =>
          /\ c'.status = c.status /\ c'.aborted = c.aborted
          /\ c'.parse_completed = c.parse_completed
          /\ c'.conversion_begun = c.conversion_begun
          /\ ~\E e \in Events' : e.ev = "error"]_vars

\* a meta refresh whose URL cannot be joined: no refresh, and nothing else
C28_Witness ==
    /\ c.op = "DOMNodeInserted" /\ c.node.tag = "meta" /\ c.fail = "url"
    /\ c.node.x # Absent /\ Len(c.node.y) > 1 /\ IsDigit(c.node.y[1])
    /\ c.nrefresh = 0 /\ c.base_refresh = Absent /\ c.status = "LOADING"

\* a link whose registration fails: no stylesheet, no fetch, and nothing else
C28_LinkWitness ==
    /\ c.op = "DOMNodeInserted" /\ c.node.tag = "link"
    /\ c.fail = "handler" /\ c.stylesheets = << >> /\ c.fetching = 0
    /\ c.status = "LOADING"

WhiteSpace == {" ", "\t", "\n", "\f", "\r"}

DigitSet == {Digits[i] : i \in 1..Len(Digits)}

RECURSIVE DropWhile(_, _)
DropWhile(text, set) ==
    IF text # << >> /\ Head(text) \in set THEN DropWhile(Tail(text), set)
    ELSE text

RECURSIVE TakeWhile(_, _)
TakeWhile(text, set) ==
    IF text # << >> /\ Head(text) \in set
    THEN <<Head(text)>> \o TakeWhile(Tail(text), set)
    ELSE << >>

\* the number a run of at most nine decimal digits writes
RECURSIVE DecVal(_)
DecVal(digits) ==
    IF digits = << >> THEN 0
    ELSE DecVal(SubSeq(digits, 1, Len(digits) - 1)) * 10
         + DigitVal(digits[Len(digits)])

RefreshEvents == {e \in Events : e.ev = "refresh"}

\* the digits the content value starts with, after its leading whitespace
DelayDigits == TakeWhile(DropWhile(c.node.y, WhiteSpace), DigitSet)

\* the delay as a signed integer: what the digits write when that fits, and
\* else what the conversion of the platform makes of them
ParsedDelay ==
    IF Len(DelayDigits) <= 9 THEN DecVal(DelayDigits)
    ELSE IntOfLong(strtol(DelayDigits, 1, c.long_bits).val)

\* C29: the delay of every refresh broadcast is 1 when the delay of the
\* content value parses to an integer less than 1 and the parsed integer
\* otherwise; '0; url=foo.html' on base http://x/y/ gives delay 1 and the
\* refresh target http://x/y/foo.html.
C29_DelayClampedToOne ==
    /\ \A e \in RefreshEvents :
          e.a = IF ParsedDelay < 1 THEN 1 ELSE ParsedDelay
    /\ (/\ c.op = "DOMNodeInserted" /\ c.fail = "none"
        /\ c.base_url = content_get_url
        /\ c.node.y = <<"0", ";", " ", "u", "r", "l", "=", "f", "o", "o", ".", "h", "t", "m", "l">>) =>
           /\ \E e \in RefreshEvents : e.a = 1
           /\ c.base_refresh = <<"h", "t", "t", "p", ":", "/", "/", "x", "/", "y", "/", "f", "o", "o", ".", "h", "t", "m", "l">>

\* the example of the claim
C29_Witness ==
    /\ c.op = "DOMNodeInserted" /\ c.base_url = content_get_url
    /\ c.node.y = <<"0", ";", " ", "u", "r", "l", "=", "f", "o", "o", ".", "h", "t", "m", "l">>
    /\ \E e \in RefreshEvents : e.a = 1
    /\ c.base_refresh = <<"h", "t", "t", "p", ":", "/", "/", "x", "/", "y", "/", "f", "o", "o", ".", "h", "t", "m", "l">>

\* a delay beyond the range of int that comes out negative and is clamped
C29_OverflowWitness ==
    /\ c.op = "DOMNodeInserted" /\ c.long_bits = 64
    /\ DelayDigits = <<"2", "1", "4", "7", "4", "8", "3", "6", "4", "8">> /\ ParsedDelay < 0
    /\ \E e \in RefreshEvents : e.a = 1

\* a delay of more than one second is broadcast as it is
C29_PlainWitness ==
    /\ c.op = "DOMNodeInserted" /\ DelayDigits = <<"1", "2">>
    /\ \E e \in RefreshEvents : e.a = 12

\* what follows the delay, the separator and the whitespace around them
UrlClause ==
    LET a == DropWhile(c.node.y, WhiteSpace)
        b == DropWhile(DropWhile(a, DigitSet \cup {"."}), WhiteSpace)
    IN  DropWhile(IF b # << >> /\ Head(b) = ";" THEN Tail(b) ELSE b,
                  WhiteSpace)

NoLeadingDigit == DelayDigits = << >>

BadKeyword ==
    /\ Len(UrlClause) >= 3
    /\ [i \in 1..3 |-> LowerChar(UrlClause[i])] # <<"u", "r", "l">>

NoEquals ==
    /\ Len(UrlClause) >= 3
    /\ LET q == DropWhile(SubSeq(UrlClause, 4, Len(UrlClause)), WhiteSpace)
       IN  q # << >> /\ Head(q) # "="

TooShort ==
    /\ UrlClause # << >>
    /\ \/ Len(UrlClause) < 3
       \/ DropWhile(SubSeq(UrlClause, 4, Len(UrlClause)), WhiteSpace) = << >>

Malformed ==
    \/ NoLeadingDigit
    \/ ~NoLeadingDigit /\ (BadKeyword \/ NoEquals \/ TooShort)

\* C30: a content value that does not start with a digit, or whose URL clause
\* has another keyword than 'url', no '=' or too little input, is ignored:
\* no refresh target, no refresh broadcast, and the handler returns no error.
C30_MalformedValueIsIgnored ==
    (c.op = "DOMNodeInserted" /\ c.fail # "dom" /\ Malformed) =>
        /\ c.nrefresh = 0 /\ RefreshEvents = {}
        /\ c.base_refresh = Absent /\ ~c.refresh
        /\ Has("meta_refresh", "OK")

\* a URL clause with the wrong keyword and everything else in place
C30_Witness ==
    /\ c.op = "DOMNodeInserted" /\ c.fail = "none"
    /\ ~NoLeadingDigit /\ BadKeyword /\ ~NoEquals /\ ~TooShort
    /\ c.base_refresh = Absent /\ Has("meta_refresh", "OK")

C30_NoDigitWitness ==
    /\ c.op = "DOMNodeInserted" /\ c.fail = "none" /\ NoLeadingDigit
    /\ c.node.y # << >> /\ c.base_refresh = Absent

C30_NoEqualsWitness ==
    /\ c.op = "DOMNodeInserted" /\ c.fail = "none" /\ ~NoLeadingDigit
    /\ ~BadKeyword /\ NoEquals /\ c.base_refresh = Absent

C30_TooShortWitness ==
    /\ c.op = "DOMNodeInserted" /\ c.fail = "none" /\ ~NoLeadingDigit
    /\ TooShort /\ c.base_refresh = Absent

\* C31: a content value that ends after the delay, its fraction, the
\* whitespace and the ';' makes the content's own URL the refresh target,
\* whatever the base URL is, and broadcasts the refresh once with the delay
\* of the value (raised to 1 when it is less); '5' gives delay 5.
C31_DelayOnlyRefreshesOwnUrl ==
    /\ (c.op = "DOMNodeInserted" /\ c.fail # "dom"
        /\ ~NoLeadingDigit /\ UrlClause = << >>) =>
           /\ c.base_refresh = content_get_url /\ c.nrefresh = 1
           /\ \E e \in RefreshEvents :
                 e.a = IF ParsedDelay < 1 THEN 1 ELSE ParsedDelay
    /\ (c.op = "DOMNodeInserted" /\ c.fail # "dom" /\ c.node.y = <<"5">>) =>
           /\ c.base_refresh = content_get_url
           /\ \E e \in RefreshEvents : e.a = 5

\* the example of the claim, on a content whose base URL is not its own URL
C31_Witness ==
    /\ c.op = "DOMNodeInserted" /\ c.node.y = <<"5">>
    /\ c.base_url # content_get_url /\ c.base_refresh = content_get_url
    /\ \E e \in RefreshEvents : e.a = 5

\* a delay with a fraction, whitespace and ';' after it
C31_FractionWitness ==
    /\ c.op = "DOMNodeInserted" /\ c.node.y = <<"3", ".", "5", " ", ";", " ">>
    /\ c.base_refresh = content_get_url
    /\ \E e \in RefreshEvents : e.a = 3

\* C32: after html_exec has returned, the script element it created has no
\* parent in the document.
C32_ExecLeavesNoScriptElement ==
    c.op = "html_exec" => c.parent = "none"

\* C33: html_exec returns true exactly when there is a document and every
\* step up to the append of the script element to the body has succeeded,
\* whatever the injected code does and whatever becomes of the detach.
C33_ExecResultIsInsertion ==
    c.op = "html_exec" =>
        (c.result <=>
            /\ c.document
            /\ c.fail \in {"none", "get_parent_node", "remove_child"})

\* the code throws and the detach fails: the call still returns true
C33_Witness ==
    /\ c.op = "html_exec" /\ c.result /\ c.effect = "throws"
    /\ c.fail = "remove_child" /\ c.ran

\* the append to the body fails: the call returns false
C33_FalseWitness ==
    /\ c.op = "html_exec" /\ ~c.result /\ c.document
    /\ c.fail = "append_script" /\ ~c.ran

Converted ==
    /\ c.parse_completed /\ c.conversion_begun /\ c.select_ctx
    /\ c.parser = "NULL" /\ ~c.box_conversion_context

\* C34: a content that is READY or DONE has completed its parse, begun its
\* conversion, has a selection context and no parser; the status is set to
\* READY only in a box-conversion callback that reported success on a
\* content not aborted, and a content that was neither READY nor DONE becomes
\* so in such a step only.
C34_ReadyImpliesConverted ==
    /\ [](c.status \in {"READY", "DONE"} => Converted)
    /\ [][(\/ Has("set", "READY")'
           \/ c'.status \in {"READY", "DONE"}
              /\ c.status \notin {"READY", "DONE"}) =>
             /\ ~c.aborted /\ c'.op = "html_box_convert_done"
             /\ Has("box_result", "ok")' /\ Has("imagemap_extract", "ok")'
             /\ Has("set", "READY")']_vars

\* a content that became READY in the callback and waits for its objects
C34_Witness ==
    /\ c.op = "html_box_convert_done" /\ c.status = "READY"
    /\ Has("box_result", "ok") /\ c.objects > 0 /\ Converted

\* C35: a call of html_convert or html_begin_conversion that broadcast an
\* error returns false.
C35_ErrorMeansFalse ==
    (c.op \in ConversionOps /\ \E e \in Events : e.ev = "error") => ~c.ret

\* C36: every call of html_proceed_to_done leaves the status as it was,
\* except that READY with a counter of 0 becomes DONE, and returns
\* NSERROR_OK when the status it finds is LOADING, READY or DONE and an
\* error otherwise.
C36_ProceedToDone ==
    \A i \in DOMAIN c.trace :
        c.trace[i].ev = "proceed_to_done" =>
            /\ i < Len(c.trace)
            /\ LET call == c.trace[i]
                   next == c.trace[i + 1]
               IN  /\ next.ev = "proceed_result"
                   /\ next.arg = "NSERROR_OK" <=>
                          call.arg \in {"LOADING", "READY", "DONE"}
                   /\ c.status = IF call.arg = "READY" /\ call.a = 0
                                 THEN "DONE" ELSE call.arg

\* C37: when the node-inserted notification about a script element has
\* handed it to html_process_script, the inserted-into-document
\* notification that follows for the same element does not hand it over a
\* second time.
C37_ScriptHandedOverOnce ==
    [][(/\ c.op = "DOMNodeInserted" /\ ScriptNotified /\ ScriptProcessed
        /\ c'.op = "DOMNodeInsertedIntoDocument" /\ c'.node = c.node) =>
           ~ScriptProcessed']_vars

C39_KeyboardEventResult ==
    c.op = "fire_dom_keyboard_event" =>
        /\ c.ret => (c.failed = "none" /\ c.fired)
        /\ c.failed # "none" => (~c.ret /\ ~c.fired)

ButtonHandlers ==
    {"back_button_mouse_event", "fwd_button_mouse_event",
     "stop_button_mouse_event", "reload_button_mouse_event"}

\* C40: a toolbar button handler of the Plan 9 frontend makes its browser
\* call (history back, history forward, stop, reload) only when button 1 is
\* pressed in the mouse event; with button 1 not pressed it returns without
\* acting.
C40_ButtonsActOnButton1 ==
    (c.op \in ButtonHandlers /\ c.acted # "none") =>
        c.buttons % 2 = 1

====
